---- MODULE Spec2Model ----
(***************************************************************************)
(* Streaming protocol adapter of the Doubao translation proxy.             *)
(*                                                                         *)
(* Spec      the Go server's streamDoubaoResponse (go/main.go): one        *)
(*           streaming chat-completions session, one frame per step.       *)
(* SpecLive  the same session with a read loop that keeps running: every   *)
(*           reader.Read returns, and the upstream body ends.              *)
(* SpecEdge  the EdgeOne function's streamDoubaoResponse                   *)
(*           (edge-function.js), same session state, same frames.          *)
(* SpecParser    processBuffer and the read loop of the Go server, byte by *)
(*           byte, over every split of the upstream body into reads.       *)
(* SpecRequest   one inbound request of the Go server: ServeHTTP, the two  *)
(*           handlers and sendDoubaoRequest, to the response written.      *)
(* SpecResolver  the translation directive of the Go server:               *)
(*           parseTranslationOptions, then mergeTranslationOverrides.      *)
(* SpecLanguage  getLanguageCode of the Go server applied to one text.      *)
(* SpecExtract   extractTextFromContent of the Go server applied to one    *)
(*           content value.                                                *)
(* SpecSessions  two streaming sessions of the edge function as given in   *)
(*           docs/ARCHITECTURE.zh-CN.md, with the module-level DECODER.    *)
(* SpecGen   genID of the Go server called from two goroutines.            *)
(* SpecKV    the regular-expression branch of parseTranslationOptions of   *)
(*           the Go server applied to one instruction text.                *)
(* SpecRelay streamResponses of the Go server: the body of a streaming     *)
(*           responses answer copied to the client, read by read.          *)
(*                                                                         *)
(* Text is a sequence of one-character strings.                            *)
(***************************************************************************)
EXTENDS Integers, Sequences, FiniteSets, TLC

\* ------------------------------------------------------------------ bounds

\* frames the upstream delivers in one session
MaxFrames == 2

\* length of the generated delta payloads
MaxDeltaLen == 2

\* ------------------------------------------------------------- characters

NL == "\n"
CR == "\r"
SP == " "
TAB == "\t"

Alphabet == {NL, "a"}

RECURSIVE Texts(_)
Texts(n) ==
    IF n = 0 THEN {<<>>}
    ELSE Texts(n - 1) \cup {Append(t, c) : t \in {u \in Texts(n - 1) : Len(u) = n - 1}, c \in Alphabet}

\* every text over the alphabet up to MaxDeltaLen, a delta that is only a
\* carriage return, one with a carriage return inside, and a blank
DeltaTexts == Texts(MaxDeltaLen) \cup {<<CR>>, <<"a", CR, NL>>, <<SP>>}

RECURSIVE Concat(_)
Concat(ss) == IF ss = <<>> THEN <<>> ELSE Head(ss) \o Concat(Tail(ss))

\* ------------------------------------------------------------ JSON values

JString(s) == [t |-> "string", s |-> s, n |-> 0]
JNumber(n) == [t |-> "number", s |-> <<>>, n |-> n]
JAbsent == [t |-> "absent", s |-> <<>>, n |-> 0]

Digit == <<"1", "2", "3", "4", "5", "6", "7", "8", "9">>

\* toString: a string is itself, a number is formatted, anything else is ""
toString(value) ==
    CASE value.t = "string" -> value.s
      [] value.t = "number" -> IF value.n = 0 THEN <<"0">> ELSE <<Digit[value.n]>>
      [] OTHER -> <<>>

intFromInterface(value) ==
    IF value.t = "number" THEN value.n ELSE 0

\* ----------------------------------------------------------------- frames

NoUsageObject == [present |-> FALSE, input_tokens |-> JAbsent,
                  output_tokens |-> JAbsent, total_tokens |-> JAbsent]

UsageObjects ==
    { NoUsageObject,
      [present |-> TRUE, input_tokens |-> JNumber(3),
       output_tokens |-> JNumber(4), total_tokens |-> JNumber(7)],
      [present |-> TRUE, input_tokens |-> JNumber(3),
       output_tokens |-> JNumber(4), total_tokens |-> JAbsent] }

\* one frame handed to handleEvent: the event name, the kind of the joined
\* data lines ("empty", "[DONE]", "badjson", "json") and, for a JSON
\* object, the fields handleEvent reads
Frame(e, d, delta, created, usage) ==
    [event |-> e, data |-> d, delta |-> delta, created_at |-> created, usage |-> usage]

DeltaFrames ==
    { Frame("response.output_text.delta", "json", v, JAbsent, NoUsageObject) :
        v \in {JString(s) : s \in DeltaTexts} \cup {JNumber(7), JAbsent} }

CreatedFrames ==
    { Frame("response.created", "json", JAbsent, JNumber(5), NoUsageObject) }

CompletedFrames ==
    { Frame("response.completed", "json", JAbsent, JAbsent, u) : u \in UsageObjects }

DoneFrames == { Frame("", "[DONE]", JAbsent, JAbsent, NoUsageObject) }

BadJSONFrames ==
    { Frame("response.output_text.delta", "badjson", JAbsent, JAbsent, NoUsageObject) }

EmptyFrames == { Frame("response.completed", "empty", JAbsent, JAbsent, NoUsageObject) }

OtherFrames ==
    { Frame("response.in_progress", "json", JString(<<"a">>), JNumber(5), NoUsageObject) }

Frames ==
    DeltaFrames \cup CreatedFrames \cup CompletedFrames \cup DoneFrames
        \cup BadJSONFrames \cup EmptyFrames \cup OtherFrames

DeltaFrame(s) ==
    Frame("response.output_text.delta", "json", JString(s), JAbsent, NoUsageObject)

\* scenario C of the specification: "\n", "\n\nHello", " world\n", completion
ScenarioC ==
    << DeltaFrame(<<NL>>),
       DeltaFrame(<<NL, NL, "H", "e", "l", "l", "o">>),
       DeltaFrame(<<SP, "w", "o", "r", "l", "d", NL>>),
       Frame("response.completed", "json", JAbsent, JAbsent, NoUsageObject) >>

\* an upstream that announces the response twice, with two timestamps
ScenarioCreated ==
    << Frame("response.created", "json", JAbsent, JNumber(5), NoUsageObject),
       Frame("response.created", "json", JAbsent, JNumber(6), NoUsageObject),
       DeltaFrame(<<"a">>) >>

ScenarioFrames ==
    {ScenarioC[i] : i \in 1..Len(ScenarioC)}
        \cup {ScenarioCreated[i] : i \in 1..Len(ScenarioCreated)}

IsPrefix(u, v) == Len(u) <= Len(v) /\ SubSeq(v, 1, Len(u)) = u

\* the upstream bodies explored: every sequence of at most MaxFrames frames
\* of Frames, the body of scenario C and the twice-announced response
UpstreamBody(u) ==
    \/ Len(u) <= MaxFrames /\ \A i \in 1..Len(u) : u[i] \in Frames
    \/ IsPrefix(u, ScenarioC)
    \/ IsPrefix(u, ScenarioCreated)

AllFrames == Frames \cup ScenarioFrames

\* ----------------------------------------------------------------- chunks

NoUsage == [present |-> FALSE, prompt_tokens |-> 0, completion_tokens |-> 0, total_tokens |-> 0]

\* the payload of one "data: {json}" frame written to the sink
Chunk(created, deltaKind, text, finish, usage) ==
    [ line |-> "data", id |-> "chatcmpl", object |-> "chat.completion.chunk",
      created |-> created, model |-> "modelID", index |-> 0,
      delta |-> deltaKind, content |-> text, finish_reason |-> finish, usage |-> usage ]

\* the terminator "data: [DONE]"
DoneLine ==
    [ line |-> "[DONE]", id |-> "", object |-> "", created |-> 0, model |-> "", index |-> 0,
      delta |-> "", content |-> <<>>, finish_reason |-> "", usage |-> NoUsage ]

IsRole(c) == c.line = "data" /\ c.delta = "role"
IsContent(c) == c.line = "data" /\ c.delta = "content"
IsTerminal(c) == c.line = "data" /\ c.finish_reason = "stop"
IsDone(c) == c.line = "[DONE]"

\* ------------------------------------------------------------------ state

VARIABLES
    upstream,          \* frames read from the upstream body so far
    pc,                \* "reading" while the read loop runs, "returned" after it
    createdAt,
    sentRoleChunk,
    closed,
    bufferedNewlines,
    written,           \* lines written to the sink w, in order
    sinkOk,            \* the client is still connected
    writeFailed        \* some write to the sink has failed

vars == <<upstream, pc, createdAt, sentRoleChunk, closed, bufferedNewlines,
          written, sinkOk, writeFailed>>

Clock == {1}

\* the frame parser of a session taken by itself: the upstream body as
\* bytes, and processBuffer with the read loop around it
VARIABLES
    stream,            \* the bytes of the upstream body
    nread,             \* how many of them reader.Read has returned
    buffer,            \* strings.Builder buffer
    handed,            \* the (eventName, data) pairs passed to handleEvent, in order
    readerState,       \* "reading" while the read loop runs, "returned" after it
    cutKinds           \* where the read boundaries so far have fallen

parserVars == <<stream, nread, buffer, handed, readerState, cutKinds>>

ParserUnused ==
    /\ stream = <<>>
    /\ nread = 0
    /\ buffer = <<>>
    /\ handed = <<>>
    /\ readerState = "unused"
    /\ cutKinds = {}

\* one inbound request, from ServeHTTP to the response written to the caller
VARIABLES
    request,           \* the inbound HTTP request
    reqPc,             \* "received", "calling" (inside client.Do), "done"
    bodyParsed,        \* json.Unmarshal has been applied to the request body
    upstreamCalls,     \* how many times client.Do has been called
    sent,              \* the payload of the upstream call
    upstreamResult,    \* what client.Do returned
    responses          \* the responses written to the caller, in order

requestVars == <<request, reqPc, bodyParsed, upstreamCalls, sent, upstreamResult, responses>>

NoPayload == [model |-> <<>>, text |-> <<>>, stream |-> FALSE]

\* the body of an upstream answer: whether it is JSON, its error object and
\* message, the assistant text it holds, and its bytes
UpstreamAnswer(ok, hasError, message, text, raw) ==
    [json |-> ok, hasError |-> hasError, errorMessage |-> message, text |-> text, raw |-> raw]

\* what client.Do returns: an error, or a response
Outcome(kind, err, status, contentType, body) ==
    [kind |-> kind, err |-> err, status |-> status, contentType |-> contentType, body |-> body]

NoOutcome ==
    Outcome("none", <<>>, 0, "", UpstreamAnswer(FALSE, FALSE, [t |-> "absent", s |-> <<>>, n |-> 0], <<>>, <<>>))

RequestUnused ==
    /\ request = [method |-> "", path |-> ""]
    /\ reqPc = "unused"
    /\ bodyParsed = FALSE
    /\ upstreamCalls = 0
    /\ sent = NoPayload
    /\ upstreamResult = NoOutcome
    /\ responses = <<>>

\* the translation directive of one request being resolved
VARIABLES
    instruction,       \* the system instruction, by what the two parse stages find in it
    overrides,         \* <<req.TranslationOptions, req.Metadata>>
    options,           \* the translationOptions value
    resolverPc         \* "start", "parsed" (parseTranslationOptions), "merged"

resolverVars == <<instruction, overrides, options, resolverPc>>

ResolverUnused ==
    /\ instruction = [kind |-> "unused"]
    /\ overrides = <<>>
    /\ options = [kind |-> "unused"]
    /\ resolverPc = "unused"

\* one call of a pure function of the program: its argument and what it
\* returned
VARIABLES
    callArg,           \* the argument of the call
    callResult,        \* the value returned
    callPc             \* "called" before the function has run, "returned" after

callVars == <<callArg, callResult, callPc>>

CallUnused ==
    /\ callArg = <<>>
    /\ callResult = <<>>
    /\ callPc = "unused"

\* the streaming sessions of the edge function that are served at the same
\* time, and the module-level DECODER they all use
VARIABLES
    bodies,            \* per session, the bytes of its upstream body
    consumed,          \* per session, how many of them reader.read() has returned
    pumpState,         \* per session, "reading" while pump runs, "done" after it
    buffers,           \* per session, the buffer string of its closure
    events,            \* per session, the (eventName, data) pairs passed to handleEvent
    decoderPending     \* the bytes of an incomplete character held inside DECODER

sessionsVars == <<bodies, consumed, pumpState, buffers, events, decoderPending>>

SessionsUnused ==
    /\ bodies = <<>>
    /\ consumed = <<>>
    /\ pumpState = <<>>
    /\ buffers = <<>>
    /\ events = <<>>
    /\ decoderPending = <<>>

\* the identifier generator called from several goroutines
VARIABLES
    idMutex,           \* 0 when unlocked, else the goroutine that holds it
    idSource,          \* the state of the shared *rand.Rand
    idAccess,          \* the goroutines that are inside idSource.Intn
    goroutines         \* per goroutine, where it is in genID and its locals

genVars == <<idMutex, idSource, idAccess, goroutines>>

GenUnused ==
    /\ idMutex = 0
    /\ idSource = 0
    /\ idAccess = {}
    /\ goroutines = <<>>

\* the relay of a streaming answer of the responses endpoint
VARIABLES
    relayBody,         \* the bytes of upstream.Body
    relayRead,         \* how many of them reader.Read has returned
    relayW,            \* the body bytes the client has received from w
    relayPc            \* "reading" in the loop; after it "eof", "readError" or "writeError"

relayVars == <<relayBody, relayRead, relayW, relayPc>>

RelayUnused ==
    /\ relayBody = <<>>
    /\ relayRead = 0
    /\ relayW = <<>>
    /\ relayPc = "unused"

SessionUnused ==
    /\ upstream = <<>>
    /\ pc = "unused"
    /\ createdAt = 0
    /\ sentRoleChunk = FALSE
    /\ closed = FALSE
    /\ bufferedNewlines = <<>>
    /\ written = <<>>
    /\ sinkOk = TRUE
    /\ writeFailed = FALSE

\* what a step of each part of the program leaves alone
notSession == <<parserVars, requestVars, resolverVars, callVars, sessionsVars, genVars, relayVars>>
notParser == <<vars, requestVars, resolverVars, callVars, sessionsVars, genVars, relayVars>>
notRequest == <<vars, parserVars, resolverVars, callVars, sessionsVars, genVars, relayVars>>
notResolver == <<vars, parserVars, requestVars, callVars, sessionsVars, genVars, relayVars>>
notCall == <<vars, parserVars, requestVars, resolverVars, sessionsVars, genVars, relayVars>>
notSessions == <<vars, parserVars, requestVars, resolverVars, callVars, genVars, relayVars>>
notGen == <<vars, parserVars, requestVars, resolverVars, callVars, sessionsVars, relayVars>>
notRelay == <<vars, parserVars, requestVars, resolverVars, callVars, sessionsVars, genVars>>

Init ==
    /\ upstream = <<>>
    /\ pc = "reading"
    /\ createdAt \in Clock
    /\ sentRoleChunk = FALSE
    /\ closed = FALSE
    /\ bufferedNewlines = <<>>
    /\ written = <<>>
    /\ sinkOk = TRUE
    /\ writeFailed = FALSE
    /\ ParserUnused
    /\ RequestUnused
    /\ ResolverUnused
    /\ CallUnused
    /\ SessionsUnused
    /\ GenUnused
    /\ RelayUnused

\* ------------------------------------------------------- string functions

StripCR_keep(s) == s

\* strings.ReplaceAll(delta, "\r", "")
StripCR(s) == SelectSeq(s, LAMBDA c : c # CR)

RECURSIVE countLeadingNewlines(_)
countLeadingNewlines(input) ==
    IF input # <<>> /\ Head(input) = NL
    THEN 1 + countLeadingNewlines(Tail(input))
    ELSE 0

countTrailingNewlines_zero(input) == 0

RECURSIVE countTrailingNewlines(_)
countTrailingNewlines(input) ==
    IF input # <<>> /\ input[Len(input)] = NL
    THEN 1 + countTrailingNewlines(SubSeq(input, 1, Len(input) - 1))
    ELSE 0

\* strings.Trim(delta, "\n")
TrimNewlines_none(s) == s

TrimNewlines(s) ==
    IF countLeadingNewlines(s) = Len(s) THEN <<>>
    ELSE SubSeq(s, countLeadingNewlines(s) + 1, Len(s) - countTrailingNewlines(s))

Repeat_char(c, n) == [i \in 1..n |-> "a"]

\* strings.Repeat("\n", n)
Repeat(c, n) == [i \in 1..n |-> c]

\* ------------------------------------------------------------------- sink

\* the sink as the closures see it; left is the number of writes that still
\* reach the client during the current handler
Sink(left) ==
    [out |-> written, closed |-> closed, ok |-> sinkOk, failed |-> writeFailed, left |-> left]

FailWrite(s) == [s EXCEPT !.closed = TRUE, !.ok = FALSE, !.failed = TRUE]

enqueue_twice(s, payload) ==
    IF s.ok /\ s.left > 0
    THEN [s EXCEPT !.out = Append(Append(@, payload), payload), !.left = @ - 1]
    ELSE FailWrite(s)

enqueue(s, payload) ==
    IF s.ok /\ s.left > 0
    THEN [s EXCEPT !.out = Append(@, payload), !.left = @ - 1]
    ELSE FailWrite(s)

enqueueDone_open(s) ==
    IF s.closed THEN s
    ELSE IF s.ok /\ s.left > 0
         THEN [s EXCEPT !.out = Append(@, DoneLine), !.left = @ - 1]
         ELSE FailWrite(s)

enqueueDone(s) ==
    IF s.closed THEN s
    ELSE IF s.ok /\ s.left > 0
         THEN [s EXCEPT !.out = Append(@, DoneLine), !.left = @ - 1, !.closed = TRUE]
         ELSE FailWrite(s)

Commit(s) ==
    /\ written' = s.out
    /\ closed' = s.closed
    /\ sinkOk' = s.ok
    /\ writeFailed' = s.failed

\* --------------------------------------------------- handleEvent (Go)

Reading(f) ==
    /\ pc = "reading"
    /\ UpstreamBody(Append(upstream, f))
    /\ upstream' = Append(upstream, f)
    /\ pc' = pc
    /\ UNCHANGED notSession

\* dataStr == ""
HandleEmpty(f) ==
    /\ f.data = "empty"
    /\ Reading(f)
    /\ UNCHANGED <<createdAt, sentRoleChunk, closed, bufferedNewlines, written, sinkOk, writeFailed>>

\* dataStr == "[DONE]"
HandleDone(f, left) ==
    /\ f.data = "[DONE]"
    /\ Reading(f)
    /\ Commit(enqueueDone(Sink(left)))
    /\ UNCHANGED <<createdAt, sentRoleChunk, bufferedNewlines>>

HandleBadJSON_done(f) ==
    /\ f.data = "badjson"
    /\ Reading(f)
    /\ written' = Append(written, DoneLine)
    /\ closed' = TRUE
    /\ UNCHANGED <<createdAt, sentRoleChunk, bufferedNewlines, sinkOk, writeFailed>>

\* json.Unmarshal fails
HandleBadJSON(f) ==
    /\ f.data = "badjson"
    /\ Reading(f)
    /\ UNCHANGED <<createdAt, sentRoleChunk, closed, bufferedNewlines, written, sinkOk, writeFailed>>

HandleCreated(f) ==
    /\ f.data = "json"
    /\ f.event = "response.created"
    /\ Reading(f)
    /\ createdAt' = IF f.created_at.t = "number" THEN f.created_at.n ELSE createdAt
    /\ UNCHANGED <<sentRoleChunk, closed, bufferedNewlines, written, sinkOk, writeFailed>>

RoleChunk == Chunk(createdAt, "role", <<>>, "null", NoUsage)

ContentChunk_usage(text) ==
    Chunk(createdAt, "content", text, "null",
          [present |-> TRUE, prompt_tokens |-> 0, completion_tokens |-> 0, total_tokens |-> 0])

\* content chunk: delta {content}, finish_reason null, no usage key
ContentChunk(text) == Chunk(createdAt, "content", text, "null", NoUsage)

announceRole_always(s) == enqueue(s, RoleChunk)

\* if !sentRoleChunk { enqueue(role chunk); sentRoleChunk = true }
announceRole(s) == IF sentRoleChunk THEN s ELSE enqueue(s, RoleChunk)

HandleDelta(f, left) ==
    /\ f.data = "json"
    /\ f.event = "response.output_text.delta"
    /\ Reading(f)
    /\ LET delta == StripCR(toString(f.delta))
           s0 == Sink(left)
           s1 == announceRole(s0)
           leadingNewlines == countLeadingNewlines(delta)
           trailingNewlines == countTrailingNewlines(delta)
           contentStart == leadingNewlines
           contentEnd == IF Len(delta) - trailingNewlines < contentStart
                         THEN contentStart
                         ELSE Len(delta) - trailingNewlines
           coreContent == SubSeq(delta, contentStart + 1, contentEnd)
           emit == bufferedNewlines \o Repeat(NL, leadingNewlines) \o coreContent
           s2 == IF emit # <<>> THEN enqueue(s1, ContentChunk(emit)) ELSE s1
       IN  IF delta = <<>>
           THEN UNCHANGED <<createdAt, sentRoleChunk, closed, bufferedNewlines,
                            written, sinkOk, writeFailed>>
           ELSE IF TrimNewlines(delta) = <<>>
           THEN /\ Commit(s1)
                /\ sentRoleChunk' = TRUE
                /\ bufferedNewlines' = bufferedNewlines \o delta
                /\ UNCHANGED createdAt
           ELSE /\ Commit(s2)
                /\ sentRoleChunk' = TRUE
                /\ bufferedNewlines' = Repeat(NL, trailingNewlines)
                /\ UNCHANGED createdAt

usageOfCompleted(f) ==
    IF f.usage.present
    THEN [present |-> TRUE,
          prompt_tokens |-> intFromInterface(f.usage.input_tokens),
          completion_tokens |-> intFromInterface(f.usage.output_tokens),
          total_tokens |-> intFromInterface(f.usage.total_tokens)]
    ELSE NoUsage

TerminalChunk(usage) == Chunk(createdAt, "empty", <<>>, "stop", usage)

HandleCompleted_keep(f, left) ==
    /\ f.data = "json"
    /\ f.event = "response.completed"
    /\ Reading(f)
    /\ bufferedNewlines' = bufferedNewlines
    /\ Commit(enqueueDone(enqueue(Sink(left), TerminalChunk(usageOfCompleted(f)))))
    /\ UNCHANGED <<createdAt, sentRoleChunk>>

HandleCompleted(f, left) ==
    /\ f.data = "json"
    /\ f.event = "response.completed"
    /\ Reading(f)
    /\ bufferedNewlines' = <<>>
    /\ Commit(enqueueDone(enqueue(Sink(left), TerminalChunk(usageOfCompleted(f)))))
    /\ UNCHANGED <<createdAt, sentRoleChunk>>

HandleOther_created(f) ==
    /\ f.data = "json"
    /\ f.event \notin {"response.created", "response.output_text.delta", "response.completed"}
    /\ Reading(f)
    /\ createdAt' = IF f.created_at.t = "number" THEN f.created_at.n ELSE createdAt
    /\ UNCHANGED <<sentRoleChunk, closed, bufferedNewlines, written, sinkOk, writeFailed>>

\* any other event name falls through the switch
HandleOther(f) ==
    /\ f.data = "json"
    /\ f.event \notin {"response.created", "response.output_text.delta", "response.completed"}
    /\ Reading(f)
    /\ UNCHANGED <<createdAt, sentRoleChunk, closed, bufferedNewlines, written, sinkOk, writeFailed>>

ReadEOF_silent(left) ==
    /\ pc = "reading"
    /\ pc' = "returned"
    /\ UNCHANGED <<upstream, createdAt, sentRoleChunk, bufferedNewlines,
                   closed, written, sinkOk, writeFailed>>
    /\ UNCHANGED notSession

\* reader.Read returns an error (io.EOF or another): processBuffer finds no
\* complete frame, enqueueDone, return
ReadEOF(left) ==
    /\ pc = "reading"
    /\ pc' = "returned"
    /\ Commit(enqueueDone(Sink(left)))
    /\ UNCHANGED <<upstream, createdAt, sentRoleChunk, bufferedNewlines>>
    /\ UNCHANGED notSession

WritesLeft == 0..2

Next ==
    \/ \E f \in AllFrames : HandleEmpty(f)
    \/ \E f \in AllFrames, left \in WritesLeft : HandleDone(f, left)
    \/ \E f \in AllFrames : HandleBadJSON(f)
    \/ \E f \in AllFrames : HandleCreated(f)
    \/ \E f \in AllFrames, left \in WritesLeft : HandleDelta(f, left)
    \/ \E f \in AllFrames, left \in WritesLeft : HandleCompleted(f, left)
    \/ \E f \in AllFrames : HandleOther(f)
    \/ \E left \in WritesLeft : ReadEOF(left)

Spec == Init /\ [][Next]_vars

\* ------------------------------------- streamDoubaoResponse (edge function)

\* the stream controller as the closures see it: an enqueue on a stream that
\* was closed, or that the client has cancelled, throws, and the exception
\* ends the pump
EdgeSink(left) ==
    [out |-> written, closed |-> closed, ok |-> sinkOk, thrown |-> FALSE, left |-> left]

EdgeThrow(s) == [s EXCEPT !.thrown = TRUE, !.ok = (s.ok /\ s.left > 0)]

edgeEnqueue(s, payload) ==
    IF s.thrown THEN s
    ELSE IF ~s.closed /\ s.ok /\ s.left > 0
         THEN [s EXCEPT !.out = Append(@, payload), !.left = @ - 1]
         ELSE EdgeThrow(s)

edgeEnqueueDone(s) ==
    IF s.thrown \/ s.closed THEN s
    ELSE IF s.ok /\ s.left > 0
         THEN [s EXCEPT !.out = Append(@, DoneLine), !.left = @ - 1, !.closed = TRUE]
         ELSE EdgeThrow(s)

EdgeCommit(s) ==
    /\ written' = s.out
    /\ closed' = s.closed
    /\ sinkOk' = s.ok
    /\ writeFailed' = (writeFailed \/ s.thrown)
    /\ pc' = IF s.thrown THEN "returned" ELSE pc

EdgeReading(f) ==
    /\ pc = "reading"
    /\ UpstreamBody(Append(upstream, f))
    /\ upstream' = Append(upstream, f)
    /\ UNCHANGED notSession

\* a JavaScript value is truthy
Truthy(value) ==
    CASE value.t = "string" -> value.s # <<>>
      [] value.t = "number" -> value.n # 0
      [] OTHER -> FALSE

\* the text JSON.stringify writes for a delta value
edgeText(value) == toString(value)

\* !dataStr, or JSON.parse throws, or no branch matches the event name
EdgeHandleIgnored(f) ==
    /\ \/ f.data \in {"empty", "badjson"}
       \/ /\ f.data = "json"
          /\ f.event \notin {"response.created", "response.output_text.delta", "response.completed"}
       \/ f.data = "json" /\ f.event = "response.created" /\ ~Truthy(f.created_at)
    /\ EdgeReading(f)
    /\ UNCHANGED <<pc, createdAt, sentRoleChunk, closed, bufferedNewlines, written, sinkOk, writeFailed>>

EdgeHandleDone(f, left) ==
    /\ f.data = "[DONE]"
    /\ EdgeReading(f)
    /\ EdgeCommit(edgeEnqueueDone(EdgeSink(left)))
    /\ UNCHANGED <<createdAt, sentRoleChunk, bufferedNewlines>>

EdgeHandleCreated(f) ==
    /\ f.data = "json"
    /\ f.event = "response.created"
    /\ Truthy(f.created_at)
    /\ EdgeReading(f)
    /\ createdAt' = f.created_at.n
    /\ UNCHANGED <<pc, sentRoleChunk, closed, bufferedNewlines, written, sinkOk, writeFailed>>

EdgeHandleDelta(f, left) ==
    /\ f.data = "json"
    /\ f.event = "response.output_text.delta"
    /\ EdgeReading(f)
    /\ LET s0 == EdgeSink(left)
           s1 == IF sentRoleChunk THEN s0 ELSE edgeEnqueue(s0, RoleChunk)
           s2 == edgeEnqueue(s1, ContentChunk(edgeText(f.delta)))
       IN  IF ~Truthy(f.delta)
           THEN UNCHANGED <<pc, createdAt, sentRoleChunk, closed, bufferedNewlines,
                            written, sinkOk, writeFailed>>
           ELSE /\ EdgeCommit(s2)
                /\ sentRoleChunk' = (sentRoleChunk \/ ~s1.thrown)
                /\ UNCHANGED <<createdAt, bufferedNewlines>>

\* usage.input_tokens || 0
edgeTokens(value) == IF Truthy(value) /\ value.t = "number" THEN value.n ELSE 0

edgeUsageFromDoubao(usage) ==
    IF usage.present
    THEN [present |-> TRUE,
          prompt_tokens |-> edgeTokens(usage.input_tokens),
          completion_tokens |-> edgeTokens(usage.output_tokens),
          total_tokens |-> edgeTokens(usage.total_tokens)]
    ELSE NoUsage

EdgeHandleCompleted(f, left) ==
    /\ f.data = "json"
    /\ f.event = "response.completed"
    /\ EdgeReading(f)
    /\ EdgeCommit(edgeEnqueueDone(edgeEnqueue(EdgeSink(left), TerminalChunk(edgeUsageFromDoubao(f.usage)))))
    /\ UNCHANGED <<createdAt, sentRoleChunk, bufferedNewlines>>

\* reader.read() resolves with done: enqueueDone and return
EdgeReadDone(left) ==
    /\ pc = "reading"
    /\ LET s == edgeEnqueueDone(EdgeSink(left))
       IN  /\ written' = s.out
           /\ closed' = s.closed
           /\ sinkOk' = s.ok
           /\ writeFailed' = (writeFailed \/ s.thrown)
    /\ pc' = "returned"
    /\ UNCHANGED <<upstream, createdAt, sentRoleChunk, bufferedNewlines>>
    /\ UNCHANGED notSession

\* reader.read() rejects: controller.error(err), the pump stops
EdgeReadError ==
    /\ pc = "reading"
    /\ pc' = "returned"
    /\ UNCHANGED <<upstream, createdAt, sentRoleChunk, closed, bufferedNewlines,
                   written, sinkOk, writeFailed>>
    /\ UNCHANGED notSession

NextEdge ==
    \/ \E f \in AllFrames : EdgeHandleIgnored(f)
    \/ \E f \in AllFrames, left \in WritesLeft : EdgeHandleDone(f, left)
    \/ \E f \in AllFrames : EdgeHandleCreated(f)
    \/ \E f \in AllFrames, left \in WritesLeft : EdgeHandleDelta(f, left)
    \/ \E f \in AllFrames, left \in WritesLeft : EdgeHandleCompleted(f, left)
    \/ \E left \in WritesLeft : EdgeReadDone(left)
    \/ EdgeReadError

SpecEdge == Init /\ [][NextEdge]_vars

\* ------------------------------------------------ what a session has done

Last(s) == s[Len(s)]

\* the step reads one more frame from the upstream
ReadsFrame == Len(upstream') = Len(upstream) + 1

IsDeltaFrame(f) == f.data = "json" /\ f.event = "response.output_text.delta"
IsCompletedFrame(f) == f.data = "json" /\ f.event = "response.completed"
IsDoneFrame(f) == f.data = "[DONE]"

WithoutCR(s) == SelectSeq(s, LAMBDA c : c # CR)

RECURSIVE WithoutTrailingNL(_)
WithoutTrailingNL(s) ==
    IF s # <<>> /\ Last(s) = NL THEN WithoutTrailingNL(SubSeq(s, 1, Len(s) - 1)) ELSE s

OnlyNL(s) == \A i \in 1..Len(s) : s[i] = NL

\* the text of the content chunks written, chunk by chunk and as one text
ContentTexts(w) ==
    LET cs == SelectSeq(w, IsContent) IN [i \in 1..Len(cs) |-> cs[i].content]

EmittedText(w) == Concat(ContentTexts(w))

\* the delta payloads received, each with its carriage returns removed
DeltaTextsOf(u) ==
    LET ds == SelectSeq(u, IsDeltaFrame) IN [i \in 1..Len(ds) |-> WithoutCR(toString(ds[i].delta))]

Received(u) == Concat(DeltaTextsOf(u))

NoCompleted(u) == \A i \in 1..Len(u) : ~IsCompletedFrame(u[i])

\* ----------------------------------------------------------------- claims

\* C1: content preservation of the Delta Reshaper. While only deltas (and no
\* response.completed) have been handled and no write has failed, the text
\* of the content chunks written so far followed by the pending-newline
\* accumulator is the text of all deltas received with every "\r" removed;
\* this still holds when the read loop has returned, and at the first
\* response.completed the text missing from the chunks is exactly the
\* accumulator that event discards.
C1_ContentPreservation ==
    [][ (~writeFailed' /\ NoCompleted(upstream)) =>
          IF ReadsFrame /\ IsCompletedFrame(Last(upstream'))
          THEN /\ EmittedText(written') \o bufferedNewlines = Received(upstream')
               /\ bufferedNewlines' = <<>>
          ELSE EmittedText(written') \o bufferedNewlines' = Received(upstream') ]_vars

\* C1 witness: two deltas, one of them with a carriage return, have been
\* reshaped: two chunks were written and a newline is pending
C1_Witness ==
    /\ ~writeFailed
    /\ NoCompleted(upstream)
    /\ Len(DeltaTextsOf(upstream)) = 2
    /\ \E i \in 1..Len(upstream) : IsDeltaFrame(upstream[i]) /\ \E j \in 1..Len(upstream[i].delta.s) : upstream[i].delta.s[j] = CR
    /\ Len(ContentTexts(written)) = 2
    /\ bufferedNewlines # <<>>

\* C2: chunk validity. Every content chunk written in a streaming
\* chat-completions session has at least one character that is not "\n":
\* none is empty, none consists of newlines only.
C2_ChunkValidity ==
    \A i \in 1..Len(written) :
        IsContent(written[i]) => \E j \in 1..Len(written[i].content) : written[i].content[j] # NL

HelloChunk3 == <<NL, NL, NL, "H", "e", "l", "l", "o">>
HelloChunk2 == <<NL, NL, "H", "e", "l", "l", "o">>
WorldChunk == <<SP, "w", "o", "r", "l", "d">>

\* the session has read the three deltas of scenario C and then ended, by
\* the response.completed event or by the end of the upstream body
ScenarioCEnded ==
    /\ ~writeFailed
    /\ \/ upstream = ScenarioC
       \/ upstream = SubSeq(ScenarioC, 1, 3) /\ pc = "returned"

\* C3 (as stated): after scenario C the content chunks are "\n\nHello" and
\* " world"
C3_ScenarioC_Original ==
    ScenarioCEnded => ContentTexts(written) = <<HelloChunk2, WorldChunk>>

\* C3 (amended): after scenario C the content chunks are "\n\n\nHello" (the
\* newline of the first delta, then the second delta) and " world"; the
\* trailing newline of the last delta is in no chunk
C3_ScenarioC ==
    ScenarioCEnded =>
        /\ ContentTexts(written) = <<HelloChunk3, WorldChunk>>
        /\ bufferedNewlines = IF upstream = ScenarioC THEN <<>> ELSE <<NL>>
        /\ \A i \in 1..Len(written) : written[i].content \in {<<>>, HelloChunk3, WorldChunk}

C3_Witness ==
    /\ upstream = ScenarioC
    /\ ~writeFailed
    /\ Len(written) = 5
    /\ IsDone(written[5])

\* the received text with the newline run pending at each response.completed
\* taken out: done is the text before the last response.completed, seg the
\* text of the deltas since
RECURSIVE KeptBefore(_, _, _)
KeptBefore(u, done, seg) ==
    IF u = <<>> THEN <<done, seg>>
    ELSE IF IsCompletedFrame(Head(u)) THEN KeptBefore(Tail(u), done \o WithoutTrailingNL(seg), <<>>)
    ELSE IF IsDeltaFrame(Head(u)) THEN KeptBefore(Tail(u), done, seg \o WithoutCR(toString(Head(u).delta)))
    ELSE KeptBefore(Tail(u), done, seg)

Kept(u) == KeptBefore(u, <<>>, <<>>)[1] \o KeptBefore(u, <<>>, <<>>)[2]
KeptAtEnd(u) == KeptBefore(u, <<>>, <<>>)[1] \o WithoutTrailingNL(KeptBefore(u, <<>>, <<>>)[2])

\* C4 (as stated): when the session has ended the text of the content chunks
\* is the text of all deltas received with carriage returns removed
C4_Concatenation_Original ==
    (pc = "returned" /\ ~writeFailed) => EmittedText(written) = Received(upstream)

\* C4 (amended): when the session has ended without a failed write, the text
\* of the content chunks is the text of all deltas received with carriage
\* returns removed and without the newline runs that were pending at a
\* response.completed event or at the end of the stream
C4_Concatenation ==
    (pc = "returned" /\ ~writeFailed) => EmittedText(written) = KeptAtEnd(upstream)

C4_Witness ==
    /\ pc = "returned"
    /\ ~writeFailed
    /\ bufferedNewlines # <<>>
    /\ Len(ContentTexts(written)) = 2
    /\ EmittedText(written) # Received(upstream)

Whitespace == {SP, TAB, NL}

\* C5 (as stated): no content chunk written consists of whitespace only
C5_NoWhitespaceChunk_Original ==
    \A i \in 1..Len(written) :
        IsContent(written[i]) => \E j \in 1..Len(written[i].content) : written[i].content[j] \notin Whitespace

\* C5 (amended): a delta that consists only of newlines (after removing
\* "\r") is never written as a content chunk by itself: it writes no content
\* chunk and is appended to the accumulator, so no content chunk written by
\* the Go server consists of newlines only (a blank or a tab counts as text)
C5_NoNewlineChunk ==
    /\ [](\A i \in 1..Len(written) : IsContent(written[i]) => ~OnlyNL(written[i].content))
    /\ [][ (ReadsFrame /\ IsDeltaFrame(Last(upstream')) /\ OnlyNL(WithoutCR(toString(Last(upstream').delta)))) =>
             /\ ContentTexts(written') = ContentTexts(written)
             /\ bufferedNewlines' = bufferedNewlines \o WithoutCR(toString(Last(upstream').delta)) ]_vars

\* C5 witness: a newline-only delta was buffered and then written in front of
\* the text of the next delta
C5_Witness ==
    /\ Len(upstream) >= 2
    /\ IsDeltaFrame(upstream[1]) /\ upstream[1].delta.s = <<NL>>
    /\ IsDeltaFrame(upstream[2]) /\ upstream[2].delta.s = <<"a", NL>>
    /\ ContentTexts(written) = << <<NL, "a">> >>
    /\ bufferedNewlines = <<NL>>

EndsStream == \/ ReadsFrame /\ IsCompletedFrame(Last(upstream'))
              \/ pc = "reading" /\ pc' = "returned"

\* C6: end-of-stream discard. A response.completed event, or the end of the
\* upstream body, writes no content chunk; response.completed empties the
\* accumulator; the terminal chunk and the terminator carry no text; nothing
\* is written after the read loop has returned; and the newlines that were
\* pending at a response.completed are in no chunk written before or after
\* it (the text written, followed by the accumulator, is the received text
\* without those newline runs).
C6_EndOfStreamDiscard ==
    /\ [](~writeFailed => EmittedText(written) \o bufferedNewlines = Kept(upstream))
    /\ [](\A i \in 1..Len(written) : (IsTerminal(written[i]) \/ IsDone(written[i])) => written[i].content = <<>>)
    /\ [][ EndsStream =>
             /\ ContentTexts(written') = ContentTexts(written)
             /\ ReadsFrame => bufferedNewlines' = <<>> ]_vars
    /\ [][ pc = "returned" => UNCHANGED vars ]_vars

\* C6 witness: "a\n" then response.completed: the pending newline was
\* discarded, the terminal chunk and the terminator were written
C6_Witness ==
    /\ ~writeFailed
    /\ Len(upstream) = 2
    /\ IsDeltaFrame(upstream[1]) /\ upstream[1].delta.s = <<"a", NL>>
    /\ IsCompletedFrame(upstream[2])
    /\ ContentTexts(written) = << <<"a">> >>
    /\ Len(written) = 4 /\ IsTerminal(written[3]) /\ IsDone(written[4])
    /\ bufferedNewlines = <<>>

HasDone(w) == \E i \in 1..Len(w) : IsDone(w[i])

\* C7: no writes after Completed. Once the terminator "data: [DONE]" has
\* been written, nothing further is written to the sink.
C7_NoWritesAfterCompleted ==
    [][ HasDone(written) => written' = written ]_vars

\* C8: every terminal chunk (finish_reason "stop") is immediately followed by
\* the terminator, no terminator and no other terminal chunk precedes it.
C8_OneTerminalChunk ==
    ~writeFailed =>
        \A i \in 1..Len(written) :
            IsTerminal(written[i]) =>
                /\ i < Len(written)
                /\ IsDone(written[i + 1])
                /\ \A j \in 1..(i - 1) : ~IsDone(written[j]) /\ ~IsTerminal(written[j])

\* C9: a frame whose payload is the literal [DONE], read while the session
\* is not closed (before any delta or while streaming), writes the
\* terminator and nothing else, whatever its event name, sets closed, and
\* changes nothing else of the session; no finish_reason "stop" chunk is
\* written for it.
C9_DoneLiteral ==
    [][ (ReadsFrame /\ IsDoneFrame(Last(upstream'))) =>
          /\ closed'
          /\ UNCHANGED <<createdAt, sentRoleChunk, bufferedNewlines, pc>>
          /\ IF closed THEN written' = written
             ELSE IF writeFailed' THEN written' = written
             ELSE written' = Append(written, DoneLine) ]_vars

\* C9 witness: [DONE] arrived while streaming and the terminator was written
\* with no terminal chunk
C9_Witness ==
    /\ ~writeFailed
    /\ Len(upstream) >= 2
    /\ IsDoneFrame(Last(upstream))
    /\ sentRoleChunk
    /\ Len(ContentTexts(written)) >= 1
    /\ IsDone(Last(written))
    /\ \A i \in 1..Len(written) : ~IsTerminal(written[i])
    /\ closed

RoleChunks(w) == {i \in 1..Len(w) : IsRole(w[i])}

\* a delta whose text is not empty once "\r" is removed has been read
ContentBearing(u) ==
    \E i \in 1..Len(u) : IsDeltaFrame(u[i]) /\ WithoutCR(toString(u[i].delta)) # <<>>

\* C10: the role chunk is written at most once; it is written (with
\* finish_reason null) exactly when the first delta with text is handled;
\* every content chunk written comes after it.
C10_RoleOnce ==
    /\ Cardinality(RoleChunks(written)) <= 1
    /\ \A i \in 1..Len(written) : IsContent(written[i]) => \E j \in RoleChunks(written) : j < i
    /\ \A j \in RoleChunks(written) : written[j].finish_reason = "null" /\ written[j].content = <<>>
    /\ sentRoleChunk = ContentBearing(upstream)
    /\ ~writeFailed => Cardinality(RoleChunks(written)) = (IF ContentBearing(upstream) THEN 1 ELSE 0)

\* C10 witness: two deltas with text, one role chunk, then the content
C10_Witness ==
    /\ ~writeFailed
    /\ Len(ContentTexts(written)) = 2
    /\ IsRole(written[1])
    /\ Cardinality(RoleChunks(written)) = 1

\* ------------------------------------------------------------------- C11

DataChunks(w) == {i \in 1..Len(w) : w[i].line = "data"}

\* C11: in the re-encoded stream a usage object appears only in the terminal
\* chunk (finish_reason "stop"); role and content chunks carry no usage and
\* finish_reason null; every chunk has its single choice at index 0.
C11_UsageOnlyInTerminal ==
    \A i \in DataChunks(written) :
        /\ written[i].index = 0
        /\ written[i].usage.present => IsTerminal(written[i])
        /\ (IsRole(written[i]) \/ IsContent(written[i])) =>
              /\ ~written[i].usage.present
              /\ written[i].finish_reason = "null"
        /\ IsRole(written[i]) \/ IsContent(written[i]) \/ IsTerminal(written[i])

\* C11 witness: role chunk, content chunk, then a terminal chunk that
\* carries the usage of the completed frame
C11_Witness ==
    /\ Len(written) = 4
    /\ IsRole(written[1]) /\ IsContent(written[2])
    /\ IsTerminal(written[3]) /\ written[3].usage.present
    /\ written[3].usage.total_tokens = 7
    /\ IsDone(written[4])

\* ----------------------------------------- frame parser (Go), byte by byte

\* lines (with their terminator) of an upstream body
MaxLines == 3

\* parts of a content list
MaxParts == 2

\* lines (with their terminator) of a relayed upstream body
MaxRelayLines == 2

\* the two bytes of one two-byte UTF-8 character
B1 == "<C3>"
B2 == "<A9>"

EventPrefix == <<"e", "v", "e", "n", "t", ":">>
DataPrefix == <<"d", "a", "t", "a", ":">>

\* the lines explored: an event line, a data line whose value has a leading
\* blank and a two-byte character, and the empty line; each ends with LF or
\* with CRLF
StreamLines == { EventPrefix \o <<"e">>, DataPrefix \o <<SP, B1, B2>>, <<>> }
LineEnds == { <<NL>>, <<CR, NL>> }
StreamPieces == { l \o e : l \in StreamLines, e \in LineEnds }

RECURSIVE StreamsOf(_)
StreamsOf(n) ==
    IF n = 0 THEN {<<>>}
    ELSE StreamsOf(n - 1) \cup { s \o p : s \in StreamsOf(n - 1), p \in StreamPieces }

Streams == StreamsOf(MaxLines)

InitParser ==
    /\ stream \in Streams
    /\ nread = 0
    /\ buffer = <<>>
    /\ handed = <<>>
    /\ readerState = "reading"
    /\ cutKinds = {}
    /\ SessionUnused
    /\ RequestUnused
    /\ ResolverUnused
    /\ CallUnused
    /\ SessionsUnused
    /\ GenUnused
    /\ RelayUnused

\* strings.Index(current, "\n\n"), counted from 1; 0 when there is none
IndexDelimiter(current) ==
    LET at == {i \in 1..(Len(current) - 1) : current[i] = NL /\ current[i + 1] = NL}
    IN  IF at = {} THEN 0 ELSE CHOOSE i \in at : \A j \in at : i <= j

asciiSpace == {SP, TAB, NL, CR}

\* strings.TrimSpace
TrimSpace(s) ==
    LET keep == {i \in 1..Len(s) : s[i] \notin asciiSpace}
    IN  IF keep = {} THEN <<>>
        ELSE SubSeq(s, CHOOSE i \in keep : \A j \in keep : i <= j,
                       CHOOSE i \in keep : \A j \in keep : j <= i)

\* strings.Split(rawEvent, "\n")
RECURSIVE SplitLines(_)
SplitLines(s) ==
    LET at == {i \in 1..Len(s) : s[i] = NL}
        first == CHOOSE i \in at : \A j \in at : i <= j
    IN  IF at = {} THEN <<s>>
        ELSE <<SubSeq(s, 1, first - 1)>> \o SplitLines(SubSeq(s, first + 1, Len(s)))

\* strings.HasPrefix
HasPrefix(s, prefix) == IsPrefix(prefix, s)

\* strings.Join(dataLines, "\n")
RECURSIVE JoinLines(_)
JoinLines(ls) ==
    IF ls = <<>> THEN <<>>
    ELSE IF Len(ls) = 1 THEN ls[1]
    ELSE ls[1] \o <<NL>> \o JoinLines(Tail(ls))

\* the loop over the lines of one raw event: the last "event:" line names
\* the event, the "data:" lines are collected in order
RECURSIVE scanLines(_, _, _)
scanLines(lines, eventName, dataLines) ==
    IF lines = <<>> THEN [event |-> eventName, data |-> JoinLines(dataLines)]
    ELSE LET line == Head(lines)
         IN  IF HasPrefix(line, EventPrefix)
             THEN scanLines(Tail(lines), TrimSpace(SubSeq(line, 7, Len(line))), dataLines)
             ELSE IF HasPrefix(line, DataPrefix)
             THEN scanLines(Tail(lines), eventName,
                            Append(dataLines, TrimSpace(SubSeq(line, 6, Len(line)))))
             ELSE scanLines(Tail(lines), eventName, dataLines)

\* processBuffer: while the buffer holds "\n\n", cut the raw event before
\* it, drop its "\r", and hand it over unless it is blank
RECURSIVE processBuffer(_, _)
processBuffer(current, out) ==
    LET idx == IndexDelimiter(current)
        rawEvent == StripCR(SubSeq(current, 1, idx - 1))
        remaining == SubSeq(current, idx + 2, Len(current))
    IN  IF idx = 0 THEN [buffer |-> current, handed |-> out]
        ELSE IF TrimSpace(rawEvent) = <<>> THEN processBuffer(remaining, out)
        ELSE processBuffer(remaining, Append(out, scanLines(SplitLines(rawEvent), <<>>, <<>>)))

bufferWrite_replace(buf, bytes) == bytes

\* buffer.Write(temp[:n])
bufferWrite(buf, bytes) == buf \o bytes

\* where a read boundary at offset k of the body falls
CutKind(k) ==
    IF k = 0 \/ k >= Len(stream) THEN {}
    ELSE IF stream[k] = NL /\ stream[k + 1] = NL THEN {"delimiter"}
    ELSE IF stream[k] = B1 /\ stream[k + 1] = B2 THEN {"character"}
    ELSE IF stream[k] # NL THEN {"line"}
    ELSE {}

\* reader.Read returns n > 0 bytes and no error
ReadBytes(n) ==
    /\ readerState = "reading"
    /\ n \in 1..(Len(stream) - nread)
    /\ LET r == processBuffer(bufferWrite(buffer, SubSeq(stream, nread + 1, nread + n)), handed)
       IN  /\ buffer' = r.buffer
           /\ handed' = r.handed
    /\ nread' = nread + n
    /\ cutKinds' = cutKinds \cup CutKind(nread + n)
    /\ UNCHANGED <<stream, readerState>>
    /\ UNCHANGED notParser

ReadError_flush ==
    /\ readerState = "reading"
    /\ LET r == processBuffer(buffer \o <<NL, NL>>, handed)
       IN  /\ buffer' = r.buffer
           /\ handed' = r.handed
    /\ readerState' = "returned"
    /\ UNCHANGED <<stream, nread, cutKinds>>
    /\ UNCHANGED notParser

\* reader.Read returns an error (io.EOF at the end of the body, another
\* error anywhere): processBuffer once more, then return
ReadError ==
    /\ readerState = "reading"
    /\ LET r == processBuffer(buffer, handed)
       IN  /\ buffer' = r.buffer
           /\ handed' = r.handed
    /\ readerState' = "returned"
    /\ UNCHANGED <<stream, nread, cutKinds>>
    /\ UNCHANGED notParser

NextParser ==
    \/ \E n \in 1..Len(stream) : ReadBytes(n)
    \/ ReadError

parserAll == <<vars, parserVars, requestVars, resolverVars, callVars, sessionsVars, genVars, relayVars>>

SpecParser == InitParser /\ [][NextParser]_parserAll

\* ------------------------------------------------------------------- C12

\* the frames handed over when the bytes are fed as one chunk
OneChunk(bytes) == processBuffer(bufferWrite(<<>>, bytes), <<>>).handed

\* C12: split-invariance of the frame parser. However the bytes read so far
\* were split into read chunks, the frames handed to the encoder are the
\* frames handed over when the same bytes are fed as one chunk.
C12_SplitInvariance ==
    handed = OneChunk(SubSeq(stream, 1, nread))

\* C12 witness: a body of an event line, a data line and the blank line was
\* read with boundaries inside a line, inside the two-byte character and
\* inside the delimiter, and its one frame was handed over
C12_Witness ==
    /\ readerState = "returned"
    /\ nread = Len(stream)
    /\ cutKinds = {"delimiter", "character", "line"}
    /\ handed = << [event |-> <<"e">>, data |-> <<B1, B2>>] >>

\* ------------------------------------------------------------------- C13

\* the same bytes written with LF line ends: every "\r\n" becomes "\n"
RECURSIVE CRLFToLF(_)
CRLFToLF(s) ==
    IF Len(s) >= 2 /\ s[1] = CR /\ s[2] = NL THEN <<NL>> \o CRLFToLF(SubSeq(s, 3, Len(s)))
    ELSE IF s = <<>> THEN <<>>
    ELSE <<Head(s)>> \o CRLFToLF(Tail(s))

\* C13: "\r\n" is taken as "\n" before the "\n\n" delimiter is searched.
\* Once a body has been read whole, the frames handed over are the frames
\* of the same body written with LF line ends.
C13_CRLFAsLF ==
    nread = Len(stream) => handed = OneChunk(CRLFToLF(stream))

\* ------------------------------------------------------------------- C14

\* C14: client disconnect. After a write to the sink has failed, no further
\* frame is read from the upstream body.
C14_NoReadAfterWriteFailure ==
    [][ writeFailed => upstream' = upstream ]_vars

\* ------------------------------------------------- request handling (Go)

\* more JSON values: null, booleans, arrays, and objects by the keys the
\* server reads from a message, a content part or an input segment
JNull == [t |-> "null", s |-> <<>>, n |-> 0]
JBool(b) == [t |-> "bool", s |-> <<>>, n |-> IF b THEN 1 ELSE 0]
JArray(items) == [t |-> "array", s |-> <<>>, n |-> 0, items |-> items]
JObject(role, text, content) ==
    [t |-> "object", s |-> <<>>, n |-> 0, role |-> role, text |-> text, content |-> content]

\* a Go interface{} holding a decoded JSON value is nil for an absent key
\* and for null
IsNil(value) == value.t \in {"absent", "null"}

MaxRequestSize == 24 * 1024

\* an error body: {"error":{"message","type","code"}}
Envelope(message, type, code) ==
    [kind |-> "error", message |-> message, type |-> type, code |-> code]

errorTemplates ==
    [ notFound    |-> Envelope(<<"Not Found">>, "invalid_request_error", ""),
      noAuth      |-> Envelope(<<"[missing API key]">>, "invalid_request_error", "invalid_api_key"),
      tooLarge    |-> Envelope(<<"[request too large]">>, "invalid_request_error", ""),
      noMessage   |-> Envelope(<<"[no user message]">>, "invalid_request_error", ""),
      noModel     |-> Envelope(<<"[missing model]">>, "invalid_request_error", ""),
      invalidJson |-> Envelope(<<"[invalid JSON]">>, "invalid_request_error", ""),
      serverError |-> Envelope(<<"[internal server error]">>, "api_error", "") ]

QUOTE == "\""
BACKSLASH == "\\"

\* json.Marshal of a string without its surrounding quotes
RECURSIVE escapeJSONString(_)
escapeJSONString(input) ==
    IF input = <<>> THEN <<>>
    ELSE (IF Head(input) \in {QUOTE, BACKSLASH} THEN <<BACKSLASH, Head(input)>> ELSE <<Head(input)>>)
             \o escapeJSONString(Tail(input))

UpstreamErrorPrefix == <<"[upstream API error: ]">>

\* the message field of the body, as written (escaped)
formatUpstreamError(message) ==
    Envelope(UpstreamErrorPrefix \o
                 escapeJSONString(IF message = <<>> THEN <<"[unknown error]">> ELSE message),
             "api_error", "")

\* one response written to the caller
Response(status, body) == [status |-> status, body |-> body]

Success(kind) == [kind |-> kind, message |-> <<>>, type |-> "", code |-> ""]

\* ---- the requests explored

BearerKey == <<"B", "e", "a", "r", "e", "r", " ", "k">>
BearerPrefix == <<"B", "e", "a", "r", "e", "r", " ">>

Authorizations ==
    { BearerKey, <<"b", "e", "a", "r", "e", "r", " ", "k">>, <<"B", "a", "s", "i", "c", " ", "k">>, <<>> }

Message(role, content) == [role |-> role, content |-> content]

TextPart == JObject(JAbsent, JString(<<"a">>), JAbsent)

\* contents of a user turn: text, the empty string, null, an object with no
\* text, a list with a text part, the empty list
UserContents ==
    { JString(<<"a">>), JString(<<>>), JNull, JObject(JAbsent, JAbsent, JAbsent),
      JArray(<<TextPart>>), JArray(<<>>) }

MessageLists ==
    { <<>>, << Message("system", JString(<<"a">>)) >> }
    \cup { << Message("user", c) >> : c \in UserContents }
    \cup { << Message("user", JString(<<"a">>)), Message("User", JString(<<>>)) >>,
           << Message("user", JString(<<"a">>)), Message("assistant", JString(<<"a">>)) >> }

\* values of the responses endpoint's input
ResponsesInputs ==
    { JAbsent, JString(<<"a">>), JString(<<>>),
      JArray(<<JString(<<"a">>)>>),
      JArray(<<JObject(JString(<<"u", "s", "e", "r">>), JAbsent, JString(<<"a">>))>>),
      JArray(<<JObject(JString(<<"u", "s", "e", "r">>), JAbsent, JString(<<>>))>>),
      JObject(JAbsent, JString(<<"a">>), JAbsent) }

Body(ok, model, messages, input, flag) ==
    [json |-> ok, model |-> model, messages |-> messages, input |-> input, stream |-> flag]

Models == { <<"m">>, <<>> }
StreamFlags == { JBool(TRUE), JBool(FALSE), JAbsent }

ChatBodies ==
    { Body(TRUE, m, ms, JAbsent, st) : m \in Models, ms \in MessageLists, st \in StreamFlags }
    \cup { Body(FALSE, <<>>, <<>>, JAbsent, JAbsent) }

ResponsesBodies ==
    { Body(TRUE, m, <<>>, i, st) : m \in Models, i \in ResponsesInputs, st \in StreamFlags }
    \cup { Body(FALSE, <<>>, <<>>, JAbsent, JAbsent) }

ChatPath == "/v1/chat/completions"
ResponsesPath == "/v1/responses"

\* bodies of a few bytes and bodies one byte over the limit, with and
\* without a Content-Length header
BodySizes == { 10, MaxRequestSize + 1 }

Requests ==
    { [method |-> me, path |-> pb[1], auth |-> a, contentLength |-> cl, size |-> sz, body |-> pb[2]] :
        me \in {"POST", "GET"},
        pb \in ({ChatPath} \X ChatBodies) \cup ({ResponsesPath} \X ResponsesBodies)
                 \cup ({"/v1/models"} \X {Body(TRUE, <<"m">>, <<>>, JAbsent, JAbsent)}),
        a \in Authorizations,
        cl \in BOOLEAN,
        sz \in BodySizes }

InitRequest ==
    /\ request \in Requests
    /\ reqPc = "received"
    /\ bodyParsed = FALSE
    /\ upstreamCalls = 0
    /\ sent = NoPayload
    /\ upstreamResult = NoOutcome
    /\ responses = <<>>
    /\ SessionUnused
    /\ ParserUnused
    /\ ResolverUnused
    /\ CallUnused
    /\ SessionsUnused
    /\ GenUnused
    /\ RelayUnused

\* ---- what the handlers compute

RECURSIVE extractTextFromContent(_)
RECURSIVE firstText(_)

RECURSIVE firstText_last(_)
firstText_last(parts) ==
    IF parts = <<>> THEN <<>>
    ELSE IF firstText_last(Tail(parts)) # <<>> THEN firstText_last(Tail(parts))
    ELSE extractTextFromContent(Head(parts))

\* the first non-empty text of the parts of a list
firstText(parts) ==
    IF parts = <<>> THEN <<>>
    ELSE IF extractTextFromContent(Head(parts)) # <<>> THEN extractTextFromContent(Head(parts))
    ELSE firstText(Tail(parts))

extractTextFromContent_anyText(content) ==
    CASE content.t = "string" -> content.s
      [] content.t = "array" -> firstText(content.items)
      [] content.t = "object" ->
            IF content.text.t = "string" THEN content.text.s
            ELSE IF content.content.t = "string" THEN content.content.s
            ELSE IF content.content.t = "array" THEN firstText(content.content.items)
            ELSE <<>>
      [] OTHER -> <<>>

extractTextFromContent(content) ==
    CASE content.t = "string" -> content.s
      [] content.t = "array" -> firstText(content.items)
      [] content.t = "object" ->
            IF content.text.t = "string" /\ content.text.s # <<>> THEN content.text.s
            ELSE IF content.content.t = "string" /\ content.content.s # <<>> THEN content.content.s
            ELSE IF content.content.t = "array" THEN firstText(content.content.items)
            ELSE <<>>
      [] OTHER -> <<>>

\* strings.EqualFold(role, name) for the role names explored
EqualFold(role, name) == role = name \/ (role = "User" /\ name = "user")

\* the content of the last message whose role is "user"; nil when none
lastUserContent(messages) ==
    LET users == {i \in 1..Len(messages) : EqualFold(messages[i].role, "user")}
    IN  IF users = {} THEN JAbsent
        ELSE messages[CHOOSE i \in users : \A j \in users : j <= i].content

\* handleSegment of parseResponsesInput, for one object segment, given the
\* user content found so far
handleSegment(segment, userContent) ==
    LET rawContent == IF segment.content.t # "absent" THEN segment.content
                      ELSE IF segment.text.t = "string" THEN segment.text
                      ELSE JAbsent
        role == IF segment.role.t = "string" THEN segment.role.s ELSE <<>>
        text == extractTextFromContent(rawContent)
    IN  IF role = <<"s", "y", "s", "t", "e", "m">> /\ text # <<>> THEN userContent
        ELSE IF role \in {<<>>, <<"u", "s", "e", "r">>} /\ text # <<>> /\ IsNil(userContent)
        THEN rawContent
        ELSE userContent

RECURSIVE scanSegments(_, _)
scanSegments(segments, userContent) ==
    IF segments = <<>> THEN userContent
    ELSE LET seg == Head(segments)
         IN  scanSegments(Tail(segments),
                 IF seg.t = "string" THEN (IF IsNil(userContent) THEN seg ELSE userContent)
                 ELSE IF seg.t = "object" THEN handleSegment(seg, userContent)
                 ELSE userContent)

\* the user content returned by parseResponsesInput
parseResponsesInput(input) ==
    CASE input.t = "string" -> input
      [] input.t = "array" -> scanSegments(input.items, JAbsent)
      [] input.t = "object" -> handleSegment(input, JAbsent)
      [] OTHER -> JAbsent

parseStreamFlag(flag) == flag.t = "bool" /\ flag.n = 1

RECURSIVE marshalJSON(_)
RECURSIVE marshalItems(_)

marshalItems(items) ==
    IF items = <<>> THEN <<>>
    ELSE IF Len(items) = 1 THEN marshalJSON(items[1])
    ELSE marshalJSON(items[1]) \o <<",">> \o marshalItems(Tail(items))

marshalKey(name, value) ==
    IF value.t = "absent" THEN <<>> ELSE << <<QUOTE, name, QUOTE, ":">> \o marshalJSON(value) >>

RECURSIVE joinComma(_)
joinComma(parts) ==
    IF parts = <<>> THEN <<>>
    ELSE IF Len(parts) = 1 THEN parts[1]
    ELSE parts[1] \o <<",">> \o joinComma(Tail(parts))

\* json.Marshal of a decoded value (object keys in sorted order)
marshalJSON(value) ==
    CASE value.t = "string" -> <<QUOTE>> \o escapeJSONString(value.s) \o <<QUOTE>>
      [] value.t = "number" -> toString(value)
      [] value.t = "bool" -> IF value.n = 1 THEN <<"true">> ELSE <<"false">>
      [] value.t = "array" -> <<"[">> \o marshalItems(value.items) \o <<"]">>
      [] value.t = "object" ->
            <<"{">> \o joinComma(marshalKey("content", value.content)
                                  \o marshalKey("role", value.role)
                                  \o marshalKey("text", value.text)) \o <<"}">>
      [] OTHER -> <<"null">>

\* stringifyUserContent: a string is itself, anything else is its JSON text
stringifyUserContent(content) ==
    IF content.t = "string" THEN content.s ELSE marshalJSON(content)

buildDoubaoPayload(model, userContent, isStream) ==
    [model |-> model, text |-> stringifyUserContent(userContent), stream |-> isStream]

\* the result of a handler up to its upstream call: either a response and
\* no call, or the payload of the call
Reject(status, body, parsed) ==
    [calls |-> FALSE, parsed |-> parsed, response |-> <<Response(status, body)>>, payload |-> NoPayload]

Call(p) == [calls |-> TRUE, parsed |-> TRUE, response |-> <<>>, payload |-> p]

\* the part both handlers share: json.Unmarshal, the model check, then the
\* user content check `userContent == nil`
checkUserContent(body, userContent) ==
    IF IsNil(userContent)
    THEN Reject(400, errorTemplates.noMessage, TRUE)
    ELSE Call(buildDoubaoPayload(body.model, userContent, parseStreamFlag(body.stream)))

handleChatCompletions(body) ==
    IF ~body.json THEN Reject(400, errorTemplates.invalidJson, TRUE)
    ELSE IF body.model = <<>> THEN Reject(400, errorTemplates.noModel, TRUE)
    ELSE checkUserContent(body, lastUserContent(body.messages))

handleResponses(body) ==
    IF ~body.json THEN Reject(400, errorTemplates.invalidJson, TRUE)
    ELSE IF body.model = <<>> THEN Reject(400, errorTemplates.noModel, TRUE)
    ELSE checkUserContent(body, parseResponsesInput(body.input))

hasBearer_any(auth) == TRUE

\* strings.HasPrefix(auth, "Bearer ")
hasBearer(auth) == HasPrefix(auth, BearerPrefix)

\* ServeHTTP up to the point where the handler blocks in client.Do or has
\* written its response
route(r) ==
    IF r.method # "POST" THEN Reject(404, errorTemplates.notFound, FALSE)
    ELSE IF r.path \notin {ChatPath, ResponsesPath} THEN Reject(404, errorTemplates.notFound, FALSE)
    ELSE IF ~hasBearer(r.auth) THEN Reject(401, errorTemplates.noAuth, FALSE)
    ELSE IF r.contentLength /\ r.size > MaxRequestSize THEN Reject(400, errorTemplates.tooLarge, FALSE)
    ELSE IF r.size > MaxRequestSize THEN Reject(400, errorTemplates.tooLarge, FALSE)
    ELSE IF r.path = ChatPath THEN handleChatCompletions(r.body)
    ELSE handleResponses(r.body)

ServeHTTP ==
    /\ reqPc = "received"
    /\ LET res == route(request)
       IN  /\ bodyParsed' = res.parsed
           /\ responses' = responses \o res.response
           /\ sent' = res.payload
           /\ upstreamCalls' = IF res.calls THEN upstreamCalls + 1 ELSE upstreamCalls
           /\ reqPc' = IF res.calls THEN "calling" ELSE "done"
    /\ UNCHANGED <<request, upstreamResult>>
    /\ UNCHANGED notRequest

\* ---- the upstream call

EmptyAnswer == UpstreamAnswer(FALSE, FALSE, JAbsent, <<>>, <<>>)

ErrorAnswer(message, raw) == UpstreamAnswer(TRUE, TRUE, message, <<>>, raw)

\* client.Do fails (the 60 s timeout, a refused connection), or the
\* upstream answers
Outcomes ==
    { Outcome("error", <<"[timeout]">>, 0, "", EmptyAnswer),
      Outcome("error", <<"[connection refused]">>, 0, "", EmptyAnswer),
      Outcome("response", <<>>, 200, "text/event-stream", EmptyAnswer),
      Outcome("response", <<>>, 200, "application/json",
              UpstreamAnswer(TRUE, FALSE, JAbsent, <<"b">>, <<"{", "}">>)),
      Outcome("response", <<>>, 200, "application/json",
              UpstreamAnswer(TRUE, FALSE, JAbsent, <<>>, <<"{", "}">>)),
      Outcome("response", <<>>, 200, "application/json",
              ErrorAnswer(JString(<<"E">>), <<"{", "}">>)),
      Outcome("response", <<>>, 200, "text/html",
              UpstreamAnswer(FALSE, FALSE, JAbsent, <<>>, <<"o">>)),
      Outcome("response", <<>>, 429, "application/json",
              ErrorAnswer(JString(<<"M">>), <<"{", "}">>)),
      Outcome("response", <<>>, 429, "application/json",
              ErrorAnswer(JString(<<"M", QUOTE>>), <<"{", "}">>)),
      Outcome("response", <<>>, 400, "application/json",
              ErrorAnswer(JAbsent, <<SP, "{", "}", NL>>)),
      Outcome("response", <<>>, 502, "text/html",
              UpstreamAnswer(FALSE, FALSE, JAbsent, <<>>, <<SP, "g", NL>>)),
      Outcome("response", <<>>, 500, "", EmptyAnswer) }

\* extractUpstreamError: error.message of a JSON body, else the trimmed
\* body, else a fixed text
extractUpstreamError(body) ==
    IF body.json /\ body.hasError /\ body.errorMessage.t \in {"string", "number"}
    THEN toString(body.errorMessage)
    ELSE IF TrimSpace(body.raw) # <<>> THEN TrimSpace(body.raw)
    ELSE <<"[upstream interface error]">>

\* sendDoubaoRequest after client.Do has returned o: the response for a 2xx
\* status, else an error whose text is drawn from the body
sendDoubaoRequest(o) ==
    IF o.kind = "error" THEN [ok |-> FALSE, err |-> o.err]
    ELSE IF o.status >= 200 /\ o.status < 300 THEN [ok |-> TRUE, err |-> <<>>]
    ELSE [ok |-> FALSE, err |-> extractUpstreamError(o.body)]

convert_lenient(o, final, needsText) ==
    IF o.status < 200 \/ o.status >= 300
    THEN Response(o.status, formatUpstreamError(extractUpstreamError(o.body)))
    ELSE IF ~o.body.json THEN Response(500, errorTemplates.serverError)
    ELSE IF needsText /\ o.body.text = <<>>
    THEN Response(500, formatUpstreamError(<<"[no translation result]">>))
    ELSE Response(200, Success(final))

\* what both handlers do with the upstream answer when they do not stream
\* it; final is the body written on success
convert(o, final, needsText) ==
    IF o.status < 200 \/ o.status >= 300
    THEN Response(o.status, formatUpstreamError(extractUpstreamError(o.body)))
    ELSE IF ~o.body.json THEN Response(500, errorTemplates.serverError)
    ELSE IF o.body.hasError /\ o.body.errorMessage.t \notin {"string", "absent"}
    THEN Response(500, errorTemplates.serverError)
    ELSE IF o.body.hasError THEN Response(500, formatUpstreamError(o.body.errorMessage.s))
    ELSE IF needsText /\ o.body.text = <<>>
    THEN Response(500, formatUpstreamError(<<"[no translation result]">>))
    ELSE Response(200, Success(final))

\* the handler from the return of sendDoubaoRequest to its response
respond(o, final, needsText) ==
    IF ~sendDoubaoRequest(o).ok
    THEN Response(500, formatUpstreamError(sendDoubaoRequest(o).err))
    ELSE IF sent.stream /\ o.contentType = "text/event-stream"
    THEN Response(200, Success("stream"))
    ELSE convert(o, final, needsText)

ChatCompletionsReturn_retry(o) ==
    /\ reqPc = "calling"
    /\ request.path = ChatPath
    /\ upstreamResult' = o
    /\ IF sendDoubaoRequest(o).ok
       THEN /\ responses' = Append(responses, respond(o, "chat.completion", TRUE))
            /\ reqPc' = "done"
            /\ UNCHANGED upstreamCalls
       ELSE /\ upstreamCalls' = upstreamCalls + 1
            /\ UNCHANGED <<responses, reqPc>>
    /\ UNCHANGED <<request, bodyParsed, sent>>
    /\ UNCHANGED notRequest

\* handleChatCompletions after client.Do has returned
ChatCompletionsReturn(o) ==
    /\ reqPc = "calling"
    /\ request.path = ChatPath
    /\ upstreamResult' = o
    /\ responses' = Append(responses, respond(o, "chat.completion", TRUE))
    /\ reqPc' = "done"
    /\ UNCHANGED <<request, bodyParsed, upstreamCalls, sent>>
    /\ UNCHANGED notRequest

\* handleResponses after client.Do has returned
ResponsesReturn(o) ==
    /\ reqPc = "calling"
    /\ request.path = ResponsesPath
    /\ upstreamResult' = o
    /\ responses' = Append(responses, respond(o, "response", FALSE))
    /\ reqPc' = "done"
    /\ UNCHANGED <<request, bodyParsed, upstreamCalls, sent>>
    /\ UNCHANGED notRequest

NextRequest ==
    \/ ServeHTTP
    \/ \E o \in Outcomes : ChatCompletionsReturn(o)
    \/ \E o \in Outcomes : ResponsesReturn(o)

requestAll == <<vars, parserVars, requestVars, resolverVars, callVars, sessionsVars, genVars, relayVars>>

SpecRequest == InitRequest /\ [][NextRequest]_requestAll

\* ------------------------------------------------------------------- C15

\* the upstream call failed: client.Do returned an error (timeout,
\* transport failure) or a response with a non-2xx status
Failed(o) ==
    \/ o.kind = "error"
    \/ o.kind = "response" /\ (o.status < 200 \/ o.status >= 300)

\* C15: exactly one upstream attempt per inbound request. The upstream call
\* is issued at most once; a request that passed validation has issued it
\* exactly once and nothing repeats it after a timeout, a transport failure
\* or a non-2xx status; a failed call ends in exactly one error response.
C15_OneUpstreamAttempt ==
    /\ upstreamCalls <= 1
    /\ reqPc = "calling" => upstreamCalls = 1 /\ responses = <<>>
    /\ reqPc = "done" => Len(responses) = 1
    /\ reqPc = "done" => (upstreamCalls = 1 <=> upstreamResult # NoOutcome)
    /\ (reqPc = "done" /\ upstreamCalls = 0) => responses[1].status \in {400, 401, 404}
    /\ (reqPc = "done" /\ Failed(upstreamResult)) =>
          /\ upstreamCalls = 1
          /\ responses[1].body.kind = "error"
          /\ responses[1].status >= 400

\* C15 witness: the one upstream call of a chat completion timed out and the
\* caller got one error response
C15_Witness ==
    /\ reqPc = "done"
    /\ request.path = ChatPath
    /\ upstreamResult.kind = "error" /\ upstreamResult.err = <<"[timeout]">>
    /\ upstreamCalls = 1
    /\ Len(responses) = 1 /\ responses[1].status = 500 /\ responses[1].body.kind = "error"

\* ------------------------------------------------------------------- C16

\* the request is one the server routes: POST to one of its two endpoints
Routed(r) == r.method = "POST" /\ r.path \in {ChatPath, ResponsesPath}

NoBearer(r) == ~IsPrefix(BearerPrefix, r.auth)

\* C16: scenario D. A request without a "Bearer " credential never has its
\* body parsed and never causes an upstream call; sent to one of the two
\* endpoints it is answered 401 with the authentication-error envelope
\* (code invalid_api_key).
C16_MissingBearer ==
    NoBearer(request) =>
        /\ ~bodyParsed
        /\ upstreamCalls = 0
        /\ reqPc # "calling"
        /\ (reqPc = "done" /\ Routed(request)) =>
              /\ Len(responses) = 1
              /\ responses[1].status = 401
              /\ responses[1].body = errorTemplates.noAuth
              /\ responses[1].body.code = "invalid_api_key"

\* C16 witness: a chat completion with a well-formed body and no
\* Authorization header was answered 401
C16_Witness ==
    /\ reqPc = "done"
    /\ Routed(request)
    /\ request.auth = <<>>
    /\ request.body.json /\ request.body.model # <<>>
    /\ responses = << Response(401, errorTemplates.noAuth) >>
    /\ upstreamCalls = 0 /\ ~bodyParsed

\* ------------------------------------------------------------------- C17

\* the request reaches a handler: routed, authenticated, within the size limit
Admitted(r) == Routed(r) /\ ~NoBearer(r) /\ r.size <= MaxRequestSize

\* the content of the user turn of a request
UserTurn(r) ==
    IF r.path = ChatPath THEN lastUserContent(r.body.messages)
    ELSE parseResponsesInput(r.body.input)

\* the model is missing, or the user turn yields no text
Malformed(r) ==
    r.body.json /\ (r.body.model = <<>> \/ extractTextFromContent(UserTurn(r)) = <<>>)

\* C17: a malformed request (missing model; absent user turn, empty-string
\* content, or content from which no text is extracted) is answered with a
\* malformed-request error and the upstream is never called.
C17_MalformedBeforeUpstream ==
    (Admitted(request) /\ Malformed(request)) =>
        /\ upstreamCalls = 0
        /\ reqPc = "done" =>
              /\ responses[1].status = 400
              /\ responses[1].body.type = "invalid_request_error"

\* ------------------------------------------------------------------- C18

\* the text a JSON string body stands for
RECURSIVE unescapeJSONString(_)
unescapeJSONString(s) ==
    IF s = <<>> THEN <<>>
    ELSE IF Head(s) = BACKSLASH /\ Len(s) >= 2 THEN <<s[2]>> \o unescapeJSONString(SubSeq(s, 3, Len(s)))
    ELSE <<Head(s)>> \o unescapeJSONString(Tail(s))

Contains(s, sub) ==
    \E i \in 0..(Len(s) - Len(sub)) : SubSeq(s, i + 1, i + Len(sub)) = sub

\* the upstream answered a non-2xx status with body {"error":{"message":M}}
UpstreamRefused(o) ==
    /\ o.kind = "response"
    /\ o.status < 200 \/ o.status >= 300
    /\ o.body.json /\ o.body.hasError /\ o.body.errorMessage.t = "string"

\* C18: scenario E. When the upstream answers a non-2xx status S with body
\* {"error":{"message":M}}, the caller receives one error envelope whose
\* message contains M and whose HTTP status is S.
C18_UpstreamStatusPropagated ==
    (reqPc = "done" /\ UpstreamRefused(upstreamResult)) =>
        /\ Len(responses) = 1
        /\ responses[1].body.kind = "error"
        /\ Contains(unescapeJSONString(responses[1].body.message), upstreamResult.body.errorMessage.s)
        /\ responses[1].status = upstreamResult.status

\* --------------------------------------------- directive resolution (Go)

\* the table of getLanguageCode; a character outside ASCII is written as
\* its code point
languages ==
    << [Code |-> <<"z", "h">>,
        Names |-> << <<"U+4E2D", "U+6587", "U+FF08", "U+7B80", "U+4F53", "U+FF09">>,
                     <<"s", "i", "m", "p", "l", "i", "f", "i", "e", "d", " ", "c", "h", "i", "n", "e", "s", "e">>,
                     <<"U+7B80", "U+4F53", "U+4E2D", "U+6587">>,
                     <<"c", "h", "i", "n", "e", "s", "e">>,
                     <<"z", "h">> >>],
       [Code |-> <<"z", "h", "-", "H", "a", "n", "t">>,
        Names |-> << <<"U+4E2D", "U+6587", "U+FF08", "U+7E41", "U+4F53", "U+FF09">>,
                     <<"t", "r", "a", "d", "i", "t", "i", "o", "n", "a", "l", " ", "c", "h", "i", "n", "e", "s", "e">>,
                     <<"U+7E41", "U+9AD4", "U+4E2D", "U+6587">>,
                     <<"z", "h", "-", "h", "a", "n", "t">> >>],
       [Code |-> <<"e", "n">>,
        Names |-> << <<"U+82F1", "U+8BED">>,
                     <<"e", "n", "g", "l", "i", "s", "h">>,
                     <<"e", "n">> >>],
       [Code |-> <<"j", "a">>,
        Names |-> << <<"U+65E5", "U+8BED">>,
                     <<"j", "a", "p", "a", "n", "e", "s", "e">>,
                     <<"U+65E5", "U+672C", "U+8A9E">>,
                     <<"j", "a">> >>],
       [Code |-> <<"k", "o">>,
        Names |-> << <<"U+97E9", "U+8BED">>,
                     <<"k", "o", "r", "e", "a", "n">>,
                     <<"U+D55C", "U+AD6D", "U+C5B4">>,
                     <<"k", "o">> >>],
       [Code |-> <<"d", "e">>,
        Names |-> << <<"U+5FB7", "U+8BED">>,
                     <<"g", "e", "r", "m", "a", "n">>,
                     <<"d", "e", "u", "t", "s", "c", "h">>,
                     <<"d", "e">> >>],
       [Code |-> <<"f", "r">>,
        Names |-> << <<"U+6CD5", "U+8BED">>,
                     <<"f", "r", "e", "n", "c", "h">>,
                     <<"f", "r", "a", "n", "U+00E7", "a", "i", "s">>,
                     <<"f", "r">> >>],
       [Code |-> <<"e", "s">>,
        Names |-> << <<"U+897F", "U+73ED", "U+7259", "U+8BED">>,
                     <<"s", "p", "a", "n", "i", "s", "h">>,
                     <<"e", "s", "p", "a", "U+00F1", "o", "l">>,
                     <<"e", "s">> >>],
       [Code |-> <<"i", "t">>,
        Names |-> << <<"U+610F", "U+5927", "U+5229", "U+8BED">>,
                     <<"i", "t", "a", "l", "i", "a", "n">>,
                     <<"i", "t", "a", "l", "i", "a", "n", "o">>,
                     <<"i", "t">> >>],
       [Code |-> <<"p", "t">>,
        Names |-> << <<"U+8461", "U+8404", "U+7259", "U+8BED">>,
                     <<"p", "o", "r", "t", "u", "g", "u", "e", "s", "e">>,
                     <<"p", "o", "r", "t", "u", "g", "u", "U+00EA", "s">>,
                     <<"p", "t">> >>],
       [Code |-> <<"r", "u">>,
        Names |-> << <<"U+4FC4", "U+8BED">>,
                     <<"r", "u", "s", "s", "i", "a", "n">>,
                     <<"U+0440", "U+0443", "U+0441", "U+0441", "U+043A", "U+0438", "U+0439">>,
                     <<"r", "u">> >>],
       [Code |-> <<"t", "h">>,
        Names |-> << <<"U+6CF0", "U+8BED">>,
                     <<"t", "h", "a", "i">>,
                     <<"U+0E44", "U+0E17", "U+0E22">>,
                     <<"t", "h">> >>],
       [Code |-> <<"v", "i">>,
        Names |-> << <<"U+8D8A", "U+5357", "U+8BED">>,
                     <<"v", "i", "e", "t", "n", "a", "m", "e", "s", "e">>,
                     <<"t", "i", "U+1EBF", "n", "g", " ", "v", "i", "U+1EC7", "t">>,
                     <<"v", "i">> >>],
       [Code |-> <<"a", "r">>,
        Names |-> << <<"U+963F", "U+62C9", "U+4F2F", "U+8BED">>,
                     <<"a", "r", "a", "b", "i", "c">>,
                     <<"U+0627", "U+0644", "U+0639", "U+0631", "U+0628", "U+064A", "U+0629">>,
                     <<"a", "r">> >>],
       [Code |-> <<"c", "s">>,
        Names |-> << <<"U+6377", "U+514B", "U+8BED">>,
                     <<"c", "z", "e", "c", "h">>,
                     <<"U+010D", "e", "U+0161", "t", "i", "n", "a">>,
                     <<"c", "s">> >>],
       [Code |-> <<"d", "a">>,
        Names |-> << <<"U+4E39", "U+9EA6", "U+8BED">>,
                     <<"d", "a", "n", "i", "s", "h">>,
                     <<"d", "a", "n", "s", "k">>,
                     <<"d", "a">> >>],
       [Code |-> <<"f", "i">>,
        Names |-> << <<"U+82AC", "U+5170", "U+8BED">>,
                     <<"f", "i", "n", "n", "i", "s", "h">>,
                     <<"s", "u", "o", "m", "i">>,
                     <<"f", "i">> >>],
       [Code |-> <<"h", "r">>,
        Names |-> << <<"U+514B", "U+7F57", "U+5730", "U+4E9A", "U+8BED">>,
                     <<"c", "r", "o", "a", "t", "i", "a", "n">>,
                     <<"h", "r", "v", "a", "t", "s", "k", "i">>,
                     <<"h", "r">> >>],
       [Code |-> <<"h", "u">>,
        Names |-> << <<"U+5308", "U+7259", "U+5229", "U+8BED">>,
                     <<"h", "u", "n", "g", "a", "r", "i", "a", "n">>,
                     <<"m", "a", "g", "y", "a", "r">>,
                     <<"h", "u">> >>],
       [Code |-> <<"i", "d">>,
        Names |-> << <<"U+5370", "U+5C3C", "U+8BED">>,
                     <<"i", "n", "d", "o", "n", "e", "s", "i", "a", "n">>,
                     <<"b", "a", "h", "a", "s", "a", " ", "i", "n", "d", "o", "n", "e", "s", "i", "a">>,
                     <<"i", "d">> >>],
       [Code |-> <<"m", "s">>,
        Names |-> << <<"U+9A6C", "U+6765", "U+8BED">>,
                     <<"m", "a", "l", "a", "y">>,
                     <<"b", "a", "h", "a", "s", "a", " ", "m", "e", "l", "a", "y", "u">>,
                     <<"m", "s">> >>],
       [Code |-> <<"n", "b">>,
        Names |-> << <<"U+632A", "U+5A01", "U+5E03", "U+514B", "U+83AB", "U+5C14", "U+8BED">>,
                     <<"n", "o", "r", "w", "e", "g", "i", "a", "n", " ", "b", "o", "k", "m", "U+00E5", "l">>,
                     <<"n", "o", "r", "s", "k", " ", "b", "o", "k", "m", "U+00E5", "l">>,
                     <<"n", "b">> >>],
       [Code |-> <<"n", "l">>,
        Names |-> << <<"U+8377", "U+5170", "U+8BED">>,
                     <<"d", "u", "t", "c", "h">>,
                     <<"n", "e", "d", "e", "r", "l", "a", "n", "d", "s">>,
                     <<"n", "l">> >>],
       [Code |-> <<"p", "l">>,
        Names |-> << <<"U+6CE2", "U+5170", "U+8BED">>,
                     <<"p", "o", "l", "i", "s", "h">>,
                     <<"p", "o", "l", "s", "k", "i">>,
                     <<"p", "l">> >>],
       [Code |-> <<"r", "o">>,
        Names |-> << <<"U+7F57", "U+9A6C", "U+5C3C", "U+4E9A", "U+8BED">>,
                     <<"r", "o", "m", "a", "n", "i", "a", "n">>,
                     <<"r", "o", "m", "U+00E2", "n", "U+0103">>,
                     <<"r", "o">> >>],
       [Code |-> <<"s", "v">>,
        Names |-> << <<"U+745E", "U+5178", "U+8BED">>,
                     <<"s", "w", "e", "d", "i", "s", "h">>,
                     <<"s", "v", "e", "n", "s", "k", "a">>,
                     <<"s", "v">> >>],
       [Code |-> <<"t", "r">>,
        Names |-> << <<"U+571F", "U+8033", "U+5176", "U+8BED">>,
                     <<"t", "u", "r", "k", "i", "s", "h">>,
                     <<"t", "U+00FC", "r", "k", "U+00E7", "e">>,
                     <<"t", "r">> >>],
       [Code |-> <<"u", "k">>,
        Names |-> << <<"U+4E4C", "U+514B", "U+5170", "U+8BED">>,
                     <<"u", "k", "r", "a", "i", "n", "i", "a", "n">>,
                     <<"U+0443", "U+043A", "U+0440", "U+0430", "U+0457", "U+043D", "U+0441", "U+044C", "U+043A", "U+0430">>,
                     <<"u", "k">> >>] >>

UpperLetters ==
    <<"A", "B", "C", "D", "E", "F", "G", "H", "I", "J", "K", "L", "M",
      "N", "O", "P", "Q", "R", "S", "T", "U", "V", "W", "X", "Y", "Z">>
LowerLetters ==
    <<"a", "b", "c", "d", "e", "f", "g", "h", "i", "j", "k", "l", "m",
      "n", "o", "p", "q", "r", "s", "t", "u", "v", "w", "x", "y", "z">>

\* strings.ToLower, on the letters A to Z
ToLower(s) ==
    [i \in 1..Len(s) |->
        IF \E k \in 1..Len(UpperLetters) : UpperLetters[k] = s[i]
        THEN LowerLetters[CHOOSE k \in 1..Len(UpperLetters) : UpperLetters[k] = s[i]]
        ELSE s[i]]

\* strings.ToLower(name) for the names of each entry
loweredNames ==
    [k \in 1..Len(languages) |->
        {ToLower(languages[k].Names[j]) : j \in 1..Len(languages[k].Names)}]

\* the entries of the table one of whose names, lowered, is the text
matching(normalized) ==
    {k \in 1..Len(languages) : normalized \in loweredNames[k]}

getLanguageCode_exact(lang) ==
    IF lang = <<>> THEN <<>>
    ELSE LET found == {k \in 1..Len(languages) :
                          \E j \in 1..Len(languages[k].Names) : languages[k].Names[j] = lang}
         IN  IF found = {} THEN lang
             ELSE languages[CHOOSE k \in found : \A j \in found : k <= j].Code

\* getLanguageCode: "" for "", the code of the first entry with a matching
\* name, else the text as given
getLanguageCode(lang) ==
    IF lang = <<>> THEN <<>>
    ELSE LET normalized == TrimSpace(ToLower(lang))
             found == matching(normalized)
         IN  IF found = {} THEN lang
             ELSE languages[CHOOSE k \in found : \A j \in found : k <= j].Code

DefaultTargetLanguage == <<"z", "h">>

\* translationOptions; SourceLanguage is a nil pointer when not set
Options(source, target) == [source_language |-> source, target_language |-> target]

DefaultOptions == Options(JAbsent, DefaultTargetLanguage)

\* the raw values of the two language keys, absent when the key is not there
Values(source, target) == [source_language |-> source, target_language |-> target]

\* a system instruction: what json.Unmarshal makes of it (kind), the values
\* of the two keys when it is a JSON object, and what the two regular
\* expressions capture in its text
Instruction(kind, source, target, kvSource, kvTarget) ==
    [kind |-> kind, source_language |-> source, target_language |-> target,
     kvSource |-> kvSource, kvTarget |-> kvTarget]

LangJa == <<"j", "a">>
LangKo == <<"k", "o">>
LangEn == <<"e", "n">>
LangEnglishPadded == <<SP, "E", "n", "g", "l", "i", "s", "h", SP>>
LangUnknown == <<"x", "x">>

Instructions ==
    { \* (no system message)
      Instruction("empty", JAbsent, JAbsent, JAbsent, JAbsent),
      \* Translate to French
      Instruction("text", JAbsent, JAbsent, JAbsent, JAbsent),
      \* target_language: ja
      Instruction("text", JAbsent, JAbsent, JAbsent, JString(LangJa)),
      \* source_language: "en" target_language: "ja"
      Instruction("text", JAbsent, JAbsent, JString(LangEn), JString(LangJa)),
      \* {"target_language":"ja"}
      Instruction("object", JAbsent, JString(LangJa), JAbsent, JAbsent),
      \* {"source_language":" English ","target_language":5}
      Instruction("object", JString(LangEnglishPadded), JNumber(5), JAbsent, JAbsent),
      \* {"target_language":""}
      Instruction("object", JAbsent, JString(<<>>), JAbsent, JAbsent),
      \* {"target_language":true}
      Instruction("object", JAbsent, JBool(TRUE), JAbsent, JAbsent),
      \* {"hint":"target_language: ko"}
      Instruction("object", JAbsent, JAbsent, JAbsent, JString(LangKo)),
      \* {}
      Instruction("object", JAbsent, JAbsent, JAbsent, JAbsent),
      \* null
      Instruction("null", JAbsent, JAbsent, JAbsent, JAbsent),
      \* "target_language: ja"
      Instruction("string", JAbsent, JAbsent, JAbsent, JString(LangJa)),
      \* ["source_language: en"]
      Instruction("array", JAbsent, JAbsent, JString(LangEn), JAbsent),
      \* 5
      Instruction("number", JAbsent, JAbsent, JAbsent, JAbsent) }

\* an override object by its two language keys and its translation_options key
JDirective(source, target, nested) ==
    [t |-> "object", s |-> <<>>, n |-> 0,
     source_language |-> source, target_language |-> target, translation_options |-> nested]

FieldValues ==
    { JAbsent, JString(<<>>), JString(LangJa), JString(LangEnglishPadded), JNumber(5) }

\* values of translation_options and of metadata in a request body
OverrideSources ==
    { JDirective(s, t, JAbsent) : s, t \in FieldValues }
    \cup { JAbsent, JString(LangEn), JNull, JNumber(5), JArray(<<>>),
           JDirective(JDirective(JAbsent, JString(LangJa), JAbsent), JNull, JAbsent),
           JDirective(JAbsent, JString(<<SP>>), JAbsent),
           JDirective(JBool(TRUE), JString(LangUnknown), JAbsent),
           JDirective(JString(LangKo), JString(LangKo), JDirective(JAbsent, JString(LangJa), JAbsent)),
           JDirective(JString(LangKo), JAbsent, JString(LangJa)) }

InitResolver ==
    /\ instruction \in Instructions
    /\ overrides \in OverrideSources \X OverrideSources
    /\ options = DefaultOptions
    /\ resolverPc = "start"
    /\ SessionUnused
    /\ ParserUnused
    /\ RequestUnused
    /\ CallUnused
    /\ SessionsUnused
    /\ GenUnused
    /\ RelayUnused

applyLanguageOption_any(opts, values) ==
    Options(IF values.source_language.t = "string"
            THEN JString(getLanguageCode(values.source_language.s))
            ELSE opts.source_language,
            IF values.target_language.t = "string"
            THEN getLanguageCode(values.target_language.s)
            ELSE opts.target_language)

\* applyLanguageOption: a key that is present and converts to a non-empty
\* code sets its field
applyLanguageOption(opts, values) ==
    Options(IF values.source_language.t = "string"
                  /\ getLanguageCode(values.source_language.s) # <<>>
            THEN JString(getLanguageCode(values.source_language.s))
            ELSE opts.source_language,
            IF values.target_language.t = "string"
                  /\ getLanguageCode(values.target_language.s) # <<>>
            THEN getLanguageCode(values.target_language.s)
            ELSE opts.target_language)

toStringOk(value) == value.t \in {"string", "number"}

\* parseTranslationJSON: json.Unmarshal into a map succeeds for a JSON object
\* and for null; the values toString accepts are kept
parseTranslationJSON(input) ==
    [ok |-> input.kind \in {"object", "null"},
     values |-> Values(IF toStringOk(input.source_language)
                       THEN JString(toString(input.source_language)) ELSE JAbsent,
                       IF toStringOk(input.target_language)
                       THEN JString(toString(input.target_language)) ELSE JAbsent)]

\* parseTranslationKV: the first submatch of each regular expression
parseTranslationKV(input) == Values(input.kvSource, input.kvTarget)

parseTranslationOptions(systemPrompt) ==
    IF systemPrompt.kind = "empty" THEN DefaultOptions
    ELSE IF parseTranslationJSON(systemPrompt).ok
    THEN applyLanguageOption(DefaultOptions, parseTranslationJSON(systemPrompt).values)
    ELSE applyLanguageOption(DefaultOptions, parseTranslationKV(systemPrompt))

\* extractCandidate: nil for what is not a map; the nested
\* translation_options when that is a map; else the map itself
extractCandidate(source) ==
    IF source.t # "object" THEN JAbsent
    ELSE IF source.translation_options.t = "object" THEN source.translation_options
    ELSE source

overrideField_any(current, raw) ==
    IF raw.t # "absent" /\ toStringOk(raw) THEN getLanguageCode(toString(raw)) ELSE current

\* one field of one override source: a value toString accepts and that
\* converts to a non-empty code replaces the current one
overrideField(current, raw) ==
    IF raw.t # "absent" /\ toStringOk(raw) /\ getLanguageCode(toString(raw)) # <<>>
    THEN getLanguageCode(toString(raw))
    ELSE current

sourceText(opts) == IF opts.source_language.t = "string" THEN opts.source_language.s ELSE <<>>

RECURSIVE mergeTranslationOverrides(_, _)
mergeTranslationOverrides(target, sources) ==
    IF sources = <<>> THEN target
    ELSE LET candidate == extractCandidate(Head(sources))
             source == overrideField(sourceText(target), candidate.source_language)
         IN  IF candidate.t # "object" THEN mergeTranslationOverrides(target, Tail(sources))
             ELSE mergeTranslationOverrides(
                      Options(IF source = sourceText(target) THEN target.source_language
                              ELSE JString(source),
                              overrideField(target.target_language, candidate.target_language)),
                      Tail(sources))

\* translationOptions := parseTranslationOptions(systemPrompt)
ParseInstruction ==
    /\ resolverPc = "start"
    /\ options' = parseTranslationOptions(instruction)
    /\ resolverPc' = "parsed"
    /\ UNCHANGED <<instruction, overrides>>
    /\ UNCHANGED notResolver

\* mergeTranslationOverrides(&translationOptions, req.TranslationOptions, req.Metadata)
MergeOverrides ==
    /\ resolverPc = "parsed"
    /\ options' = mergeTranslationOverrides(options, overrides)
    /\ resolverPc' = "merged"
    /\ UNCHANGED <<instruction, overrides>>
    /\ UNCHANGED notResolver

NextResolver ==
    \/ ParseInstruction
    \/ MergeOverrides

resolverAll == <<vars, parserVars, requestVars, resolverVars, callVars, sessionsVars, genVars, relayVars>>

SpecResolver == InitResolver /\ [][NextResolver]_resolverAll

\* ------------------------------------------------------------------- C19

\* the normalized value of a raw override value; empty when there is none
NormalizedValue(raw) ==
    IF raw.t \in {"string", "number"} THEN getLanguageCode(toString(raw)) ELSE <<>>

\* what override source i specifies for a field, normalized
Specified(i, field) ==
    IF extractCandidate(overrides[i]).t = "object"
    THEN NormalizedValue(extractCandidate(overrides[i])[field])
    ELSE <<>>

\* the override sources, in call order, that specify the field
Specifying(field) == {i \in 1..Len(overrides) : Specified(i, field) # <<>>}

LastSpecifying(field) ==
    CHOOSE i \in Specifying(field) : \A j \in Specifying(field) : j <= i

\* C19: override-order monotonicity. After the merge each field is the
\* normalized value of the last override source (translation_options, then
\* metadata) that specifies a value normalizing to non-empty; else the value
\* resolved from the system instruction; else the default (target zh, no
\* source). A value normalizing to empty overwrites nothing.
C19_OverrideOrder ==
    resolverPc = "merged" =>
        /\ options.target_language =
              IF Specifying("target_language") # {}
              THEN Specified(LastSpecifying("target_language"), "target_language")
              ELSE parseTranslationOptions(instruction).target_language
        /\ options.source_language =
              IF Specifying("source_language") # {}
              THEN JString(Specified(LastSpecifying("source_language"), "source_language"))
              ELSE parseTranslationOptions(instruction).source_language
        /\ instruction.kind = "empty" => parseTranslationOptions(instruction) = DefaultOptions
        /\ options.target_language # <<>>

\* C19 witness: the instruction names target ja; translation_options names
\* source ja and target ja; metadata names target " English " and an empty
\* source: the target is metadata's en, the source stays ja
C19_Witness ==
    /\ resolverPc = "merged"
    /\ instruction.kind = "object" /\ instruction.target_language = JString(LangJa)
    /\ overrides = << JDirective(JString(LangJa), JString(LangJa), JAbsent),
                      JDirective(JString(<<>>), JString(LangEnglishPadded), JAbsent) >>
    /\ options = Options(JString(LangJa), LangEn)

\* ------------------------------------------------------------------- C20

\* the instruction text is valid JSON, of any type
ValidJSON(i) == i.kind \in {"object", "null", "string", "number", "array", "bool"}

\* the language keys read from the parsed value: those of a JSON object
KeysRead(i) ==
    IF i.kind = "object"
    THEN Values(IF toStringOk(i.source_language) THEN JString(toString(i.source_language)) ELSE JAbsent,
                IF toStringOk(i.target_language) THEN JString(toString(i.target_language)) ELSE JAbsent)
    ELSE Values(JAbsent, JAbsent)

\* C20: single precedence rule. When the instruction parses as valid JSON of
\* any type, only keys read from the parsed value set the directive and the
\* regular expressions are not used; they are used only when JSON parsing
\* fails.
C20_JSONSkipsRegex ==
    resolverPc = "parsed" =>
        options = IF ValidJSON(instruction)
                  THEN applyLanguageOption(DefaultOptions, KeysRead(instruction))
                  ELSE IF instruction.kind = "empty" THEN DefaultOptions
                  ELSE applyLanguageOption(DefaultOptions, parseTranslationKV(instruction))

\* ------------------------------------------------------------------- C21

\* the instruction carries no language key and no key: value pair
InstructionSilent(i) ==
    /\ i.source_language = JAbsent /\ i.target_language = JAbsent
    /\ i.kvSource = JAbsent /\ i.kvTarget = JAbsent

\* an override source that names no language: not an object, or an object
\* without the two keys, in itself and in its translation_options
SourceSilent(source) ==
    \/ source.t # "object"
    \/ /\ source.source_language = JAbsent /\ source.target_language = JAbsent
       /\ \/ source.translation_options.t # "object"
          \/ /\ source.translation_options.source_language = JAbsent
             /\ source.translation_options.target_language = JAbsent

NoSignal ==
    /\ InstructionSilent(instruction)
    /\ \A i \in 1..Len(overrides) : SourceSilent(overrides[i])

ToUpper(s) ==
    [i \in 1..Len(s) |->
        IF \E k \in 1..Len(LowerLetters) : LowerLetters[k] = s[i]
        THEN UpperLetters[CHOOSE k \in 1..Len(LowerLetters) : LowerLetters[k] = s[i]]
        ELSE s[i]]

\* a name of the table as a caller may spell it: as listed, in capitals,
\* capitalized, and with white space around it
Spellings(name) ==
    { name, ToUpper(name),
      ToUpper(SubSeq(name, 1, 1)) \o SubSeq(name, 2, Len(name)),
      <<SP>> \o name \o <<NL>>,
      <<TAB, SP>> \o ToUpper(name) }

TableCodes == {languages[k].Code : k \in 1..Len(languages)}

TableNames == UNION {{languages[k].Names[j] : j \in 1..Len(languages[k].Names)} : k \in 1..Len(languages)}

\* texts that are no name of the table
UnknownLanguages ==
    { <<"x", "x">>, <<SP>>, <<SP, "x", "x", SP>>, <<"X", "x">>,
      <<"z", "h", "-", "C", "N">>, <<"z", " ", "h">>,
      <<"K", "l", "i", "n", "g", "o", "n">> }

ReadmeFormats ==
    { \* zh
      [format |-> "code", text |-> <<"z", "h">>,
       code |-> <<"z", "h">>],
      \* en
      [format |-> "code", text |-> <<"e", "n">>,
       code |-> <<"e", "n">>],
      \* ja
      [format |-> "code", text |-> <<"j", "a">>,
       code |-> <<"j", "a">>],
      \* the chinese name of zh
      [format |-> "chinese", text |-> <<"U+4E2D", "U+6587", "U+FF08", "U+7B80", "U+4F53", "U+FF09">>,
       code |-> <<"z", "h">>],
      \* the chinese name of en
      [format |-> "chinese", text |-> <<"U+82F1", "U+8BED">>,
       code |-> <<"e", "n">>],
      \* the chinese name of ja
      [format |-> "chinese", text |-> <<"U+65E5", "U+8BED">>,
       code |-> <<"j", "a">>],
      \* Chinese (simplified)
      [format |-> "english", text |-> <<"C", "h", "i", "n", "e", "s", "e", " ", "(", "s", "i", "m", "p", "l", "i", "f", "i", "e", "d", ")">>,
       code |-> <<"z", "h">>],
      \* English
      [format |-> "english", text |-> <<"E", "n", "g", "l", "i", "s", "h">>,
       code |-> <<"e", "n">>],
      \* Japanese
      [format |-> "english", text |-> <<"J", "a", "p", "a", "n", "e", "s", "e">>,
       code |-> <<"j", "a">>],
      \* the native name of zh
      [format |-> "native", text |-> <<"U+7B80", "U+4F53", "U+4E2D", "U+6587">>,
       code |-> <<"z", "h">>],
      \* the native name of ja
      [format |-> "native", text |-> <<"U+65E5", "U+672C", "U+8A9E">>,
       code |-> <<"j", "a">>],
      \* the native name of ko
      [format |-> "native", text |-> <<"U+D55C", "U+AD6D", "U+C5B4">>,
       code |-> <<"k", "o">>],
      \* the chinese name of zh-Hant
      [format |-> "chinese", text |-> <<"U+4E2D", "U+6587", "U+FF08", "U+7E41", "U+4F53", "U+FF09">>,
       code |-> <<"z", "h", "-", "H", "a", "n", "t">>],
      \* Chinese (traditional)
      [format |-> "english", text |-> <<"C", "h", "i", "n", "e", "s", "e", " ", "(", "t", "r", "a", "d", "i", "t", "i", "o", "n", "a", "l", ")">>,
       code |-> <<"z", "h", "-", "H", "a", "n", "t">>],
      \* the native name of zh-Hant
      [format |-> "native", text |-> <<"U+7E41", "U+9AD4", "U+4E2D", "U+6587">>,
       code |-> <<"z", "h", "-", "H", "a", "n", "t">>],
      \* zh-Hant
      [format |-> "code", text |-> <<"z", "h", "-", "H", "a", "n", "t">>,
       code |-> <<"z", "h", "-", "H", "a", "n", "t">>] }

LanguageInputs ==
    {<<>>} \cup TableCodes \cup UNION {Spellings(name) : name \in TableNames}
           \cup UnknownLanguages \cup {f.text : f \in ReadmeFormats}

InitLanguage ==
    /\ callArg \in LanguageInputs
    /\ callResult = <<>>
    /\ callPc = "called"
    /\ SessionUnused
    /\ ParserUnused
    /\ RequestUnused
    /\ ResolverUnused
    /\ SessionsUnused
    /\ GenUnused
    /\ RelayUnused

\* getLanguageCode(lang)
CallGetLanguageCode ==
    /\ callPc = "called"
    /\ callResult' = getLanguageCode(callArg)
    /\ callPc' = "returned"
    /\ UNCHANGED callArg
    /\ UNCHANGED notCall

NextLanguage == CallGetLanguageCode

allVars == <<vars, parserVars, requestVars, resolverVars, callVars, sessionsVars, genVars, relayVars>>

SpecLanguage == InitLanguage /\ [][NextLanguage]_allVars

\* ------------------------------------------------------------------- C22

\* the text matches a name of the table, compared case-insensitively after
\* trimming
MatchesAlias(text) ==
    \E name \in TableNames : TrimSpace(ToLower(text)) = ToLower(name)

\* C22: language normalization. Every code of the table maps to itself;
\* every name of the table, in any spelling of case and surrounding white
\* space, maps to the code of its entry; a text matching no name is returned
\* unchanged; the result is empty only when the input is empty.
C22_Normalization ==
    callPc = "returned" =>
        /\ callArg \in TableCodes => callResult = callArg
        /\ \A k \in 1..Len(languages) : \A j \in 1..Len(languages[k].Names) :
               callArg \in Spellings(languages[k].Names[j]) => callResult = languages[k].Code
        /\ ~MatchesAlias(callArg) => callResult = callArg
        /\ callResult = <<>> <=> callArg = <<>>

\* C22 witness: " \tENGLISH" with white space in front has been normalized
\* to en
C22_Witness ==
    /\ callPc = "returned"
    /\ callArg = <<TAB, SP, "E", "N", "G", "L", "I", "S", "H">>
    /\ callResult = <<"e", "n">>

\* ------------------------------------------------------------------- C30

\* C30: every language name format of the README (code, Chinese name,
\* English name such as "Chinese (simplified)", native name) is converted to
\* the standard code of its language.
C30_ReadmeFormats ==
    callPc = "returned" =>
        \A f \in ReadmeFormats : callArg = f.text => callResult = f.code

\* ------------------------------------------------- content extraction (Go)

\* content shapes: strings, null, a number, objects by their text and
\* content keys, and lists
ContentShapes ==
    { JString(<<"a">>), JString(<<>>), JNull, JNumber(5),
      \* {"text":"t"}
      JObject(JAbsent, JString(<<"t">>), JAbsent),
      \* {"text":"","content":"c"}
      JObject(JAbsent, JString(<<>>), JString(<<"c">>)),
      \* {"text":"t","content":"c"}
      JObject(JAbsent, JString(<<"t">>), JString(<<"c">>)),
      \* {"content":["b"]}
      JObject(JAbsent, JAbsent, JArray(<<JString(<<"b">>)>>)),
      \* {"text":"","content":""}
      JObject(JAbsent, JString(<<>>), JString(<<>>)),
      \* {"text":5,"content":["",{"text":"t"}]}
      JObject(JAbsent, JNumber(5), JArray(<<JString(<<>>), JObject(JAbsent, JString(<<"t">>), JAbsent)>>)),
      \* {"text":null,"content":{"text":"t"}}
      JObject(JAbsent, JNull, JObject(JAbsent, JString(<<"t">>), JAbsent)),
      \* {}
      JObject(JAbsent, JAbsent, JAbsent),
      \* []
      JArray(<<>>),
      \* ["","b"]
      JArray(<<JString(<<>>), JString(<<"b">>)>>),
      \* [{"text":"t"}]
      JArray(<<JObject(JAbsent, JString(<<"t">>), JAbsent)>>) }

PartsLists == UNION {[1..n -> ContentShapes] : n \in 0..MaxParts}

ContentInputs == ContentShapes \cup {JArray(parts) : parts \in PartsLists}

InitExtract ==
    /\ callArg \in ContentInputs
    /\ callResult = <<>>
    /\ callPc = "called"
    /\ SessionUnused
    /\ ParserUnused
    /\ RequestUnused
    /\ ResolverUnused
    /\ SessionsUnused
    /\ GenUnused
    /\ RelayUnused

\* extractTextFromContent(content)
CallExtractText ==
    /\ callPc = "called"
    /\ callResult' = extractTextFromContent(callArg)
    /\ callPc' = "returned"
    /\ UNCHANGED callArg
    /\ UNCHANGED notCall

NextExtract == CallExtractText

SpecExtract == InitExtract /\ [][NextExtract]_allVars

\* ------------------------------------------------------------------- C23

\* the elements of a list that yield non-empty text
Yielding(parts) == {i \in 1..Len(parts) : extractTextFromContent(parts[i]) # <<>>}

\* C23: Content Extractor singleton law. For every shape x that yields
\* non-empty text, extracting from the one-element list [x] gives the text
\* extracted from x; for a longer list the result is the text of the first
\* element that yields non-empty text.
C23_SingletonLaw ==
    (callPc = "returned" /\ callArg.t = "array" /\ Yielding(callArg.items) # {}) =>
        /\ Len(callArg.items) = 1 => callResult = extractTextFromContent(callArg.items[1])
        /\ callResult = extractTextFromContent(
                            callArg.items[CHOOSE i \in Yielding(callArg.items) :
                                              \A j \in Yielding(callArg.items) : i <= j])

\* C23 witness: from [{}, {"text":"","content":"c"}] the text of the second
\* element has been extracted
C23_Witness ==
    /\ callPc = "returned"
    /\ callArg = JArray(<<JObject(JAbsent, JAbsent, JAbsent),
                          JObject(JAbsent, JString(<<>>), JString(<<"c">>))>>)
    /\ callResult = <<"c">>

\* ------------------------------------------------------------------- C24

NonEmptyString(value) == value.t = "string" /\ value.s # <<>>

C25_OutboundText ==
    upstreamCalls > 0 =>
        /\ sent.text = extractTextFromContent(UserTurn(request))
        /\ sent.stream => request.body.stream = JBool(TRUE)

\* ------------------------------------------------------------------- C26

\* C26: usage mapping, for the streaming terminal chunk. In the usage object
\* of every terminal chunk sent to the caller, total_tokens equals the
\* upstream total when the response.completed frame supplies one and
\* otherwise equals prompt_tokens + completion_tokens of the same usage
\* object.
C26_UsageTotal ==
    \A i \in 1..Len(written) :
        (IsTerminal(written[i]) /\ written[i].usage.present) =>
            \E j \in 1..Len(upstream) :
                /\ upstream[j].event = "response.completed"
                /\ upstream[j].usage.present
                /\ written[i].usage.prompt_tokens = intFromInterface(upstream[j].usage.input_tokens)
                /\ written[i].usage.completion_tokens = intFromInterface(upstream[j].usage.output_tokens)
                /\ written[i].usage.total_tokens =
                      IF upstream[j].usage.total_tokens.t = "number"
                      THEN upstream[j].usage.total_tokens.n
                      ELSE written[i].usage.prompt_tokens + written[i].usage.completion_tokens

\* ------------------------------------------------------------------- C27

\* the request is done and its 2xx JSON upstream answer went through the
\* non-streaming transformer
Transformed ==
    /\ reqPc = "done"
    /\ upstreamResult.kind = "response"
    /\ upstreamResult.status >= 200 /\ upstreamResult.status < 300
    /\ upstreamResult.body.json
    /\ ~(sent.stream /\ upstreamResult.contentType = "text/event-stream")

ErrorResponse(r) == r.body.kind = "error" /\ r.status >= 400

Sessions == {1, 2}

\* the character the two bytes B1 B2 encode, and the replacement character
\* TextDecoder puts for bytes that encode nothing
TwoByteChar == "U+00E9"
ReplacementChar == "U+FFFD"

\* upstream bodies: data: <e-acute>, data: x, and an event with its data
SessionBodies ==
    { DataPrefix \o <<SP, B1, B2, NL, NL>>,
      DataPrefix \o <<SP, "x", NL, NL>>,
      EventPrefix \o <<"e", NL>> \o DataPrefix \o <<B1, B2, NL, NL>> }

\* DECODER.decode(value, { stream: true }): the characters of the bytes
\* held from the call before followed by value; the bytes of a character
\* that is not complete yet are held for the next call
RECURSIVE decode(_, _, _)
decode(pending, value, text) ==
    IF value = <<>> THEN [text |-> text, pending |-> pending]
    ELSE IF pending = <<B1>>
    THEN IF Head(value) = B2
         THEN decode(<<>>, Tail(value), Append(text, TwoByteChar))
         ELSE decode(<<>>, value, Append(text, ReplacementChar))
    ELSE IF Head(value) = B1 THEN decode(<<B1>>, Tail(value), text)
    ELSE IF Head(value) = B2 THEN decode(<<>>, Tail(value), Append(text, ReplacementChar))
    ELSE decode(<<>>, Tail(value), Append(text, Head(value)))

\* DECODER.decode(): what is held is given up as one replacement character
decodeFlush(pending) == IF pending = <<>> THEN <<>> ELSE <<ReplacementChar>>

InitSessions ==
    /\ bodies \in [Sessions -> SessionBodies]
    /\ consumed = [s \in Sessions |-> 0]
    /\ pumpState = [s \in Sessions |-> "reading"]
    /\ buffers = [s \in Sessions |-> <<>>]
    /\ events = [s \in Sessions |-> <<>>]
    /\ decoderPending = <<>>
    /\ SessionUnused
    /\ ParserUnused
    /\ RequestUnused
    /\ ResolverUnused
    /\ CallUnused
    /\ GenUnused
    /\ RelayUnused

\* pump of session s: reader.read() resolves with n bytes;
\* buffer += DECODER.decode(value, { stream: true }); processBuffer()
Pump(s, n) ==
    /\ pumpState[s] = "reading"
    /\ n \in 1..(Len(bodies[s]) - consumed[s])
    /\ LET decoded == decode(decoderPending,
                             SubSeq(bodies[s], consumed[s] + 1, consumed[s] + n), <<>>)
           r == processBuffer(buffers[s] \o decoded.text, events[s])
       IN  /\ decoderPending' = decoded.pending
           /\ buffers' = [buffers EXCEPT ![s] = r.buffer]
           /\ events' = [events EXCEPT ![s] = r.handed]
    /\ consumed' = [consumed EXCEPT ![s] = consumed[s] + n]
    /\ UNCHANGED <<bodies, pumpState>>
    /\ UNCHANGED notSessions

\* pump of session s: reader.read() resolves with done; the remainder
\* DECODER.decode() is processed when it is not empty, then enqueueDone
PumpDone(s) ==
    /\ pumpState[s] = "reading"
    /\ consumed[s] = Len(bodies[s])
    /\ LET remainder == decodeFlush(decoderPending)
           r == IF remainder # <<>>
                THEN processBuffer(buffers[s] \o remainder, events[s])
                ELSE [buffer |-> buffers[s], handed |-> events[s]]
       IN  /\ buffers' = [buffers EXCEPT ![s] = r.buffer]
           /\ events' = [events EXCEPT ![s] = r.handed]
    /\ decoderPending' = <<>>
    /\ pumpState' = [pumpState EXCEPT ![s] = "done"]
    /\ UNCHANGED <<bodies, consumed>>
    /\ UNCHANGED notSessions

\* pump of session s: reader.read() rejects; controller.error(err)
PumpError(s) ==
    /\ pumpState[s] = "reading"
    /\ pumpState' = [pumpState EXCEPT ![s] = "failed"]
    /\ UNCHANGED <<bodies, consumed, buffers, events, decoderPending>>
    /\ UNCHANGED notSessions

NextSessions ==
    \/ \E s \in Sessions : \E n \in 1..Len(bodies[s]) : Pump(s, n)
    \/ \E s \in Sessions : PumpDone(s)
    \/ \E s \in Sessions : PumpError(s)

SpecSessions == InitSessions /\ [][NextSessions]_allVars

\* ------------------------------------------------------------------- C28

\* what a session hands to handleEvent when it runs alone and has read the
\* first k bytes of its body
AloneEvents(body, k) ==
    processBuffer(decode(<<>>, SubSeq(body, 1, k), <<>>).text, <<>>).handed

\* C28: session isolation. For every interleaving of the upstream reads of
\* two sessions served at the same time, reads that split a two-byte
\* character included, what each session has handed to handleEvent (from
\* which its chunks are made) is what it hands over when it runs alone.
C28_SessionIsolation ==
    \A s \in Sessions :
        /\ \E k \in 0..consumed[s] : events[s] = AloneEvents(bodies[s], k)
        /\ pumpState[s] = "done" => events[s] = AloneEvents(bodies[s], Len(bodies[s]))

\* ------------------------------------------------- identifier generator (Go)

\* the goroutines that call genID at the same time
Goroutines == {1, 2}

idAlphabet ==
    <<"a", "b", "c", "d", "e", "f", "g", "h", "i", "j", "k", "l", "m",
      "n", "o", "p", "q", "r", "s", "t", "u", "v", "w", "x", "y", "z",
      "0", "1", "2", "3", "4", "5", "6", "7", "8", "9">>

\* the length genID asks randomString for
IDLength == 10

\* the digits of strconv.FormatInt(_, 36)
Digits36 ==
    <<"0", "1", "2", "3", "4", "5", "6", "7", "8", "9",
      "a", "b", "c", "d", "e", "f", "g", "h", "i", "j", "k", "l", "m",
      "n", "o", "p", "q", "r", "s", "t", "u", "v", "w", "x", "y", "z">>

\* strconv.FormatInt(n, 36) for n >= 0
RECURSIVE FormatInt36(_)
FormatInt36(n) ==
    IF n < Len(Digits36) THEN <<Digits36[n + 1]>>
    ELSE Append(FormatInt36(n \div Len(Digits36)), Digits36[(n % Len(Digits36)) + 1])

\* the prefixes genID is called with, and "" which it replaces
DefaultPrefix == <<"c", "h", "a", "t", "c", "m", "p", "l">>
Prefixes == { <<>>, <<"r", "e", "s", "p">>, <<"m", "s", "g">> }

\* values of time.Now().UnixNano()
ClockNanos == {0, 35, 1296}

\* the shared source: a generator with 64 states stands for the generator
\* of math/rand; each Intn moves it on and the value drawn depends on the
\* state only
SourceStates == 0..63
sourceNext(state) == (state * 5 + 3) % 64
sourceValue(state) == ((state * 7) \div 2) % Len(idAlphabet)

\* the locals of one goroutine inside genID
Local(at, prefix, now, b, id) == [pc |-> at, prefix |-> prefix, now |-> now, b |-> b, id |-> id]

InitGen ==
    /\ idMutex = 0
    /\ idSource \in {1, 22}
    /\ idAccess = {}
    /\ goroutines = [g \in Goroutines |-> Local("idle", <<>>, <<>>, <<>>, <<>>)]
    /\ SessionUnused
    /\ ParserUnused
    /\ RequestUnused
    /\ ResolverUnused
    /\ CallUnused
    /\ SessionsUnused
    /\ RelayUnused

\* genID(prefix) is called: "" is replaced by "chatcmpl"
CallGenID(g, prefix) ==
    /\ goroutines[g].pc = "idle"
    /\ goroutines' = [goroutines EXCEPT ![g].pc = "lock",
                                        ![g].prefix = IF prefix = <<>> THEN DefaultPrefix ELSE prefix]
    /\ UNCHANGED <<idMutex, idSource, idAccess>>
    /\ UNCHANGED notGen

Lock_any(g) ==
    /\ goroutines[g].pc = "lock"
    /\ idMutex' = g
    /\ goroutines' = [goroutines EXCEPT ![g].pc = "now"]
    /\ UNCHANGED <<idSource, idAccess>>
    /\ UNCHANGED notGen

\* idMutex.Lock(): returns once the mutex is free
Lock(g) ==
    /\ goroutines[g].pc = "lock"
    /\ idMutex = 0
    /\ idMutex' = g
    /\ goroutines' = [goroutines EXCEPT ![g].pc = "now"]
    /\ UNCHANGED <<idSource, idAccess>>
    /\ UNCHANGED notGen

\* strconv.FormatInt(time.Now().UnixNano(), 36)
ReadClock(g, nanos) ==
    /\ goroutines[g].pc = "now"
    /\ goroutines' = [goroutines EXCEPT ![g].pc = "intn", ![g].now = FormatInt36(nanos)]
    /\ UNCHANGED <<idMutex, idSource, idAccess>>
    /\ UNCHANGED notGen

\* randomString: idSource.Intn(len(idAlphabet)) is entered
IntnBegin(g) ==
    /\ goroutines[g].pc = "intn"
    /\ idAccess' = idAccess \cup {g}
    /\ goroutines' = [goroutines EXCEPT ![g].pc = "inIntn"]
    /\ UNCHANGED <<idMutex, idSource>>
    /\ UNCHANGED notGen

\* randomString: idSource.Intn returns and b[i] is set; when another
\* goroutine is inside Intn as well the calls race, and the value returned
\* and the state left behind are any
IntnEnd(g) ==
    /\ goroutines[g].pc = "inIntn"
    /\ \E state \in SourceStates : \E value \in 0..(Len(idAlphabet) - 1) :
          /\ idAccess = {g} => (state = sourceNext(idSource) /\ value = sourceValue(idSource))
          /\ idSource' = state
          /\ goroutines' = [goroutines EXCEPT
                               ![g].b = Append(goroutines[g].b, idAlphabet[value + 1]),
                               ![g].pc = IF Len(goroutines[g].b) + 1 = IDLength
                                         THEN "return" ELSE "intn"]
    /\ idAccess' = idAccess \ {g}
    /\ UNCHANGED idMutex
    /\ UNCHANGED notGen

\* return fmt.Sprintf("%s-%s-%s", ...), then the deferred idMutex.Unlock()
ReturnID(g) ==
    /\ goroutines[g].pc = "return"
    /\ goroutines' = [goroutines EXCEPT
                         ![g].pc = "returned",
                         ![g].id = goroutines[g].prefix \o <<"-">> \o goroutines[g].now
                                       \o <<"-">> \o goroutines[g].b]
    /\ idMutex' = 0
    /\ UNCHANGED <<idSource, idAccess>>
    /\ UNCHANGED notGen

NextGen ==
    \/ \E g \in Goroutines : \E prefix \in Prefixes : CallGenID(g, prefix)
    \/ \E g \in Goroutines : Lock(g)
    \/ \E g \in Goroutines : \E nanos \in ClockNanos : ReadClock(g, nanos)
    \/ \E g \in Goroutines : IntnBegin(g)
    \/ \E g \in Goroutines : IntnEnd(g)
    \/ \E g \in Goroutines : ReturnID(g)

SpecGen == InitGen /\ [][NextGen]_allVars

\* ------------------------------------------------------------------- C29

\* the parts of a text between the occurrences of a character
RECURSIVE SplitOn(_, _)
SplitOn(s, c) ==
    LET at == {i \in 1..Len(s) : s[i] = c}
        first == CHOOSE i \in at : \A j \in at : i <= j
    IN  IF at = {} THEN <<s>>
        ELSE <<SubSeq(s, 1, first - 1)>> \o SplitOn(SubSeq(s, first + 1, Len(s)), c)

CharsOf(s) == {s[i] : i \in 1..Len(s)}

\* <prefix>-<time>-<10 characters>
WellFormedID(id) ==
    LET parts == SplitOn(id, "-")
    IN  /\ Len(parts) = 3
        /\ parts[1] # <<>>
        /\ parts[2] # <<>> /\ CharsOf(parts[2]) \subseteq CharsOf(Digits36)
        /\ Len(parts[3]) = 10 /\ CharsOf(parts[3]) \subseteq CharsOf(idAlphabet)

\* C29: the identifier generator stays correct under concurrent
\* invocation. Calls of genID from goroutines running at the same time are
\* inside the shared random source only while holding idMutex, never two at
\* once, and every call returns an identifier of the form
\* <prefix>-<time>-<10 characters>.
C29_GenIDConcurrent ==
    /\ Cardinality(idAccess) <= 1
    /\ \A g \in idAccess : idMutex = g
    /\ \A g \in Goroutines :
           goroutines[g].pc = "returned" => WellFormedID(goroutines[g].id)

\* C29 witness: goroutine 1 has returned msg-100-<10 characters> and
\* goroutine 2, called with "", is inside Intn holding the mutex
C29_Witness ==
    /\ goroutines[1].pc = "returned"
    /\ goroutines[1].prefix = <<"m", "s", "g">>
    /\ goroutines[1].now = <<"1", "0", "0">>
    /\ WellFormedID(goroutines[1].id)
    /\ goroutines[2].pc = "inIntn"
    /\ goroutines[2].prefix = DefaultPrefix
    /\ idMutex = 2

\* ------------------------------------------------------------------- C31

\* the session state a frame can change
sessionState == <<createdAt, sentRoleChunk, bufferedNewlines, closed>>

\* C31: a frame whose payload is neither [DONE] nor parsable JSON is
\* dropped. Handling it writes nothing, leaves createdAt, sentRoleChunk,
\* bufferedNewlines and closed as they were and the read loop running, so
\* the frames after it are handled from the state they would have met
\* without it.
C31_BadJSONDropped ==
    [][ (ReadsFrame /\ Last(upstream').data = "badjson") =>
          /\ written' = written
          /\ UNCHANGED sessionState
          /\ UNCHANGED <<sinkOk, writeFailed>>
          /\ pc' = "reading" ]_vars

\* C31 witness: a frame that is not JSON, then the delta "a": the role chunk
\* and the content chunk "a" were written as for the delta alone
C31_Witness ==
    /\ Len(upstream) = 2
    /\ upstream[1].data = "badjson"
    /\ IsDeltaFrame(upstream[2])
    /\ Len(written) = 2
    /\ IsRole(written[1])
    /\ IsContent(written[2]) /\ written[2].content = <<"a">>

\* ------------------------------------------------------------------- C32

KnownEvents == {"response.created", "response.output_text.delta", "response.completed"}

\* C32: a frame with an unrecognized event name and a JSON payload is a
\* no-op: nothing is written, the session state does not change and the
\* read loop goes on.
C32_UnknownEventNoOp ==
    [][ (ReadsFrame /\ Last(upstream').data = "json" /\ Last(upstream').event \notin KnownEvents) =>
          /\ written' = written
          /\ UNCHANGED sessionState
          /\ UNCHANGED <<sinkOk, writeFailed>>
          /\ pc' = "reading" ]_vars

\* C32 witness: response.in_progress carrying delta and created_at, then
\* the delta "a": createdAt is still the clock's and only the delta wrote
C32_Witness ==
    /\ Len(upstream) = 2
    /\ upstream[1].event = "response.in_progress" /\ upstream[1].data = "json"
    /\ upstream[1].created_at = JNumber(5)
    /\ IsDeltaFrame(upstream[2])
    /\ createdAt \in Clock
    /\ Len(written) = 2
    /\ IsContent(written[2]) /\ written[2].content = <<"a">>

\* a response.created frame carrying a numeric created_at has been handled
SetFromUpstream(u) ==
    \E i \in 1..Len(u) :
        /\ u[i].data = "json"
        /\ u[i].event = "response.created"
        /\ u[i].created_at.t = "number"

\* C33: a response.created event writes nothing and changes only createdAt,
\* and createdAt is set from upstream at most once per session: a
\* response.created event that follows one which already supplied the
\* timestamp leaves createdAt as it is.
C33_CreatedOnce ==
    [][ (ReadsFrame /\ Last(upstream').data = "json"
                    /\ Last(upstream').event = "response.created") =>
          /\ written' = written
          /\ UNCHANGED <<sentRoleChunk, bufferedNewlines, closed, sinkOk, writeFailed>>
          /\ pc' = "reading"
          /\ (SetFromUpstream(upstream) => createdAt' = createdAt) ]_vars

\* the text a delta frame owes the client at once: the accumulator followed
\* by the delta without carriage returns and without its trailing newlines
OwedText(f) == bufferedNewlines \o WithoutTrailingNL(WithoutCR(toString(f.delta)))

\* C34: incremental flushing. The handling of one upstream frame appends
\* between zero and two lines to the sink and never rewrites a line; a delta
\* frame with visible text has that text, preceded by the accumulator, written
\* in its own step unless a write fails; the end of the upstream appends at
\* most the terminator, so no frame's output waits for the stream end.
C34_IncrementalFlush ==
    [][ /\ IsPrefix(written, written')
        /\ ReadsFrame => Len(written') - Len(written) \in 0..2
        /\ ~ReadsFrame => written' \in {written, Append(written, DoneLine)}
        /\ (/\ ReadsFrame
            /\ IsDeltaFrame(Last(upstream'))
            /\ ~OnlyNL(WithoutCR(toString(Last(upstream').delta)))
            /\ ~writeFailed') =>
               /\ written' # written
               /\ IsContent(Last(written'))
               /\ Last(written').content = OwedText(Last(upstream')) ]_vars

\* one delta "a\n" produced the role chunk and the content chunk in its own
\* step; only the trailing newline is carried
C34_Witness ==
    /\ Len(upstream) = 1
    /\ upstream[1] = DeltaFrame(<<"a", NL>>)
    /\ pc = "reading"
    /\ Len(written) = 2
    /\ IsRole(written[1])
    /\ written[2].content = <<"a">>
    /\ bufferedNewlines = <<NL>>

\* C39: in every reachable state of a session the pending-newline
\* accumulator holds newline characters only, and it is empty in the state
\* that follows the handling of a response.completed event.
C39_AccumulatorNewlines ==
    /\ OnlyNL(bufferedNewlines)
    /\ (upstream # <<>> /\ IsCompletedFrame(Last(upstream))) => bufferedNewlines = <<>>

\* a newline-only delta after "a\n" grew the accumulator to two newlines
C39_Witness ==
    /\ Len(upstream) = 2
    /\ upstream[1] = DeltaFrame(<<"a", NL>>)
    /\ upstream[2] = DeltaFrame(<<NL>>)
    /\ bufferedNewlines = <<NL, NL>>
    /\ Len(written) = 2

\* C35: the bytes left in the parser buffer when the upstream ends, a frame
\* no blank line closed, are discarded: the step that sees the end of the
\* upstream hands no event over and leaves the bytes where they are, also
\* when they hold a complete event line and data line.
C35_LeftoverDiscarded ==
    [][ (readerState = "reading" /\ readerState' = "returned") =>
          /\ handed' = handed
          /\ buffer' = buffer
          /\ IndexDelimiter(buffer) = 0 ]_parserAll

\* the upstream ended after an event line and a data line with no blank
\* line: both lines are still in the buffer and no event was handed over
C35_Witness ==
    /\ readerState = "returned"
    /\ nread = Len(stream)
    /\ stream = EventPrefix \o <<"e", NL>> \o DataPrefix \o <<SP, B1, B2, NL>>
    /\ buffer = stream
    /\ handed = <<>>

\* ------------------------------------------- streamResponses (Go), relay

\* buf := make([]byte, 4096)
RelayBufSize == 4096

RelayBodies == StreamsOf(MaxRelayLines)

\* after the headers: w is the server's response writer, which is an
\* http.Flusher, and nothing of the body has been read
InitRelay ==
    /\ relayBody \in RelayBodies
    /\ relayRead = 0
    /\ relayW = <<>>
    /\ relayPc = "reading"
    /\ SessionUnused
    /\ ParserUnused
    /\ RequestUnused
    /\ ResolverUnused
    /\ CallUnused
    /\ SessionsUnused
    /\ GenUnused

relayWrite_strip(out, bytes) == out \o StripCR(bytes)

\* w.Write(buf[:n]) and flusher.Flush(): the bytes reach the client as
\* they are
relayWrite(out, bytes) == out \o bytes

ReadErrors == {"nil", "EOF", "error"}

\* how the loop goes on after a read that returned err
AfterRead(err) ==
    CASE err = "nil" -> "reading"
      [] err = "EOF" -> "eof"
      [] OTHER -> "readError"

\* reader.Read returns n > 0 bytes, with or without an error; w.Write
\* delivers all of them, or fails after the first `delivered` of them
RelayChunk(n, err, delivered) ==
    /\ relayPc = "reading"
    /\ n \in 1..(Len(relayBody) - relayRead)
    /\ n <= RelayBufSize
    /\ err = "EOF" => relayRead + n = Len(relayBody)
    /\ delivered \in 0..n
    /\ LET chunk == SubSeq(relayBody, relayRead + 1, relayRead + n)
       IN  IF delivered = n
           THEN /\ relayW' = relayWrite(relayW, chunk)
                /\ relayPc' = AfterRead(err)
           ELSE /\ relayW' = relayWrite(relayW, SubSeq(chunk, 1, delivered))
                /\ relayPc' = "writeError"
    /\ relayRead' = relayRead + n
    /\ UNCHANGED relayBody
    /\ UNCHANGED notRelay

\* reader.Read returns no byte and an error: io.EOF at the end of the
\* body, another error anywhere
RelayEnd(err) ==
    /\ relayPc = "reading"
    /\ err # "nil"
    /\ err = "EOF" => relayRead = Len(relayBody)
    /\ relayPc' = AfterRead(err)
    /\ UNCHANGED <<relayBody, relayRead, relayW>>
    /\ UNCHANGED notRelay

NextRelay ==
    \/ \E n \in 1..Len(relayBody), err \in ReadErrors, delivered \in 0..Len(relayBody) :
          RelayChunk(n, err, delivered)
    \/ \E err \in ReadErrors : RelayEnd(err)

SpecRelay == InitRelay /\ [][NextRelay]_allVars

\* ------------------------------------------------------------------- C36

\* C36: relay streaming of the responses endpoint. At every moment the
\* bytes the client has received are a prefix of the upstream body, same
\* bytes in the same order; while no write has failed they are exactly the
\* bytes read so far, and they are the whole body once the upstream has
\* reached EOF with no write failure.
C36_RelayPrefix ==
    relayPc # "unused" =>
        /\ IsPrefix(relayW, relayBody)
        /\ relayPc # "writeError" => relayW = SubSeq(relayBody, 1, relayRead)
        /\ relayPc = "eof" => relayW = relayBody

\* a body with a two-byte character and CRLF line ends, read in more than
\* one piece up to EOF, has reached the client whole
C36_Witness ==
    /\ relayPc = "eof"
    /\ relayBody = DataPrefix \o <<SP, B1, B2, CR, NL, CR, NL>>
    /\ relayW = relayBody

\* ------------------------------ regex fallback of the instruction (Go)

KeySource == <<"s", "o", "u", "r", "c", "e", "_", "l", "a", "n", "g", "u", "a", "g", "e">>
KeyTarget == <<"t", "a", "r", "g", "e", "t", "_", "l", "a", "n", "g", "u", "a", "g", "e">>

SQ == "'"
DQ == "\""
reQuotes == {SQ, DQ}

\* the key stands at offset i of the text
KeyAt(input, key, i) ==
    /\ i + Len(key) - 1 <= Len(input)
    /\ SubSeq(input, i, i + Len(key) - 1) = key

\* \s* at pos, taken greedily: how many white-space characters follow
RECURSIVE SpaceRun(_, _)
SpaceRun(input, pos) ==
    IF pos <= Len(input) /\ input[pos] \in asciiSpace
    THEN 1 + SpaceRun(input, pos + 1)
    ELSE 0

\* [^'"]+ at pos, taken greedily: how many characters that are no quote follow
RECURSIVE ValueRun(_, _)
ValueRun(input, pos) ==
    IF pos <= Len(input) /\ input[pos] \notin reQuotes
    THEN 1 + ValueRun(input, pos + 1)
    ELSE 0

\* ['"]?([^'"]+) at pos: the submatch, <<>> when there is no match
CaptureAt(input, pos) ==
    IF pos <= Len(input) /\ input[pos] \in reQuotes /\ ValueRun(input, pos + 1) > 0
    THEN SubSeq(input, pos + 1, pos + ValueRun(input, pos + 1))
    ELSE IF ValueRun(input, pos) > 0
    THEN SubSeq(input, pos, pos + ValueRun(input, pos) - 1)
    ELSE <<>>

\* \s*['"]?([^'"]+) after the colon: \s* takes k characters and gives them
\* back one by one until the rest matches
RECURSIVE AfterColon(_, _, _)
AfterColon(input, from, k) ==
    IF CaptureAt(input, from + k) # <<>> THEN CaptureAt(input, from + k)
    ELSE IF k = 0 THEN <<>>
    ELSE AfterColon(input, from, k - 1)

\* key\s*:\s*['"]?([^'"]+)['"]? matched at offset i: the submatch, <<>>
\* when there is no match there
MatchAt(input, key, i) ==
    IF ~KeyAt(input, key, i) THEN <<>>
    ELSE LET colon == i + Len(key) + SpaceRun(input, i + Len(key))
         IN  IF colon <= Len(input) /\ input[colon] = ":"
             THEN AfterColon(input, colon + 1, SpaceRun(input, colon + 1))
             ELSE <<>>

\* FindStringSubmatch: the first submatch of the leftmost match, absent
\* when the expression matches nowhere
FindStringSubmatch(key, input) ==
    LET at == {i \in 1..Len(input) : MatchAt(input, key, i) # <<>>}
    IN  IF at = {} THEN JAbsent
        ELSE JString(MatchAt(input, key, CHOOSE i \in at : \A j \in at : i <= j))

reSourceLanguage(input) == FindStringSubmatch(KeySource, input)
reTargetLanguage(input) == FindStringSubmatch(KeyTarget, input)

\* `key: value` as an instruction writes it
KVSeparators == { <<":", SP>>, <<SP, ":", SP>> }
KVQuotes == { <<>>, <<SQ>>, <<DQ>> }
KVClause(key, value) ==
    { key \o sep \o q \o value \o q : sep \in KVSeparators, q \in KVQuotes }

LangEnglish == <<"E", "n", "g", "l", "i", "s", "h">>
LangYingyu == <<"U+82F1", "U+8BED">>
KVSourceValues == { LangEnglish, LangKo }
KVTargetValues == { LangYingyu, LangJa }

\* the free text around the two clauses
KVBefore == { <<>>, <<"T", "r", "a", "n", "s", "l", "a", "t", "e", ".", SP>> }
KVBetween == { <<SP>>, <<",", SP>>, <<NL>> }
KVAfter == { <<>>, <<NL>>, <<".">>, <<SP, "p", "l", "e", "a", "s", "e">> }

\* an instruction with the values it names
KVInput(text, source, target) == [text |-> text, source |-> source, target |-> target]

KVSourceOnly ==
    UNION { { KVInput(b \o s \o a, JString(x), JAbsent) :
                  b \in KVBefore, a \in KVAfter, s \in KVClause(KeySource, x) } :
            x \in KVSourceValues }

KVTargetOnly ==
    UNION { { KVInput(b \o t \o a, JAbsent, JString(y)) :
                  b \in KVBefore, a \in KVAfter, t \in KVClause(KeyTarget, y) } :
            y \in KVTargetValues }

KVSourceThenTarget ==
    UNION { { KVInput(b \o s \o m \o t \o a, JString(xy[1]), JString(xy[2])) :
                  b \in KVBefore, m \in KVBetween, a \in KVAfter,
                  s \in KVClause(KeySource, xy[1]), t \in KVClause(KeyTarget, xy[2]) } :
            xy \in KVSourceValues \X KVTargetValues }

KVTargetThenSource ==
    UNION { { KVInput(b \o t \o m \o s \o a, JString(xy[1]), JString(xy[2])) :
                  b \in KVBefore, m \in KVBetween, a \in KVAfter,
                  s \in KVClause(KeySource, xy[1]), t \in KVClause(KeyTarget, xy[2]) } :
            xy \in KVSourceValues \X KVTargetValues }

\* the instructions explored: none of them is JSON
KVInputs ==
    KVSourceOnly \cup KVTargetOnly \cup KVSourceThenTarget \cup KVTargetThenSource
        \cup { KVInput(b, JAbsent, JAbsent) : b \in KVBefore \ {<<>>} }

InitKV ==
    /\ callArg \in KVInputs
    /\ callResult = <<>>
    /\ callPc = "called"
    /\ SessionUnused
    /\ ParserUnused
    /\ RequestUnused
    /\ ResolverUnused
    /\ SessionsUnused
    /\ GenUnused
    /\ RelayUnused

\* parseTranslationOptions(systemPrompt) for an instruction that is not
\* JSON: applyLanguageOption(&options, parseTranslationKV(systemPrompt))
CallParseTranslationKV ==
    /\ callPc = "called"
    /\ callResult' = applyLanguageOption(DefaultOptions,
                         Values(reSourceLanguage(callArg.text), reTargetLanguage(callArg.text)))
    /\ callPc' = "returned"
    /\ UNCHANGED callArg
    /\ UNCHANGED notCall

NextKV == CallParseTranslationKV

SpecKV == InitKV /\ [][NextKV]_allVars

\* ------------------------------------------------------------------- C37

\* C37: regex fallback of the instruction parser. For an instruction that
\* is not JSON and names `source_language: X` and/or `target_language: Y`,
\* quoted or bare, anywhere in free text, the source language resolves to
\* the normalized X (absent when no X is named) and the target language to
\* the normalized Y (the default when no Y is named), whatever text follows
\* each value.
C37_RegexFallback ==
    callPc = "returned" =>
        /\ callResult.source_language =
              IF callArg.source.t = "string"
              THEN JString(getLanguageCode(callArg.source.s))
              ELSE JAbsent
        /\ callResult.target_language =
              IF callArg.target.t = "string"
              THEN getLanguageCode(callArg.target.s)
              ELSE DefaultTargetLanguage

\* ------------------------------------------------------------------- C38

\* the upstream body is finite and the read loop runs on: the reader.Read
\* that reports the end of the body (io.EOF or another error) is reached
UpstreamEnds == \E left \in WritesLeft : ReadEOF(left)

SpecLive == Init /\ [][Next]_vars /\ WF_vars(UpstreamEnds)

Terminators == {i \in 1..Len(written) : IsDone(written[i])}

\* the upstream body ended with neither a response.completed event nor a
\* [DONE] payload in it, and no write to the sink has failed
EndedUncompleted ==
    /\ pc = "returned"
    /\ NoCompleted(upstream)
    /\ \A i \in 1..Len(upstream) : ~IsDoneFrame(upstream[i])
    /\ ~writeFailed

====
